---------------------------- MODULE Spec2Model ----------------------------
(***************************************************************************)
(* Consensus validation and accumulator update of the Floresta node:       *)
(*   crates/floresta-chain/src/pruned_utreexo/consensus/block_validation.rs *)
(*   crates/floresta-chain/src/pruned_utreexo/consensus/mod.rs              *)
(*                                                                         *)
(* The consensus functions are pure; each is modelled as an operator and   *)
(* applied by a "call" action that records the arguments and the outcome.  *)
(*                                                                         *)
(* Rust's u32/u64/i64 values do not fit the model checker's integers, so   *)
(* every amount, height and index of block validation is a natural number *)
(* written as its little-endian sequence of 15-bit limbs without leading   *)
(* zero limbs (<<>> is 0, <<0, 1>> is 32768); the accumulator's leaf       *)
(* counts and positions stay small and are plain integers.  Two numbers    *)
(* are equal iff their sequences are equal.  A fixed-width operation is    *)
(* the exact operation followed by the                                     *)
(* truncation to the width, with the overflow reported beside it: a build  *)
(* with overflow checks (debug) panics there, one without (release) goes   *)
(* on with the truncated value.                                            *)
(***************************************************************************)
EXTENDS Integers, Sequences, FiniteSets, TLC

VARIABLES
    build,   \* "debug" (overflow checks on) or "release" (wrapping arithmetic)
    op,      \* the consensus function called last
    args,    \* its arguments
    ret,     \* what it returned (or the panic it ended with)
    acc,     \* the stump the chain state holds (the argument of update_acc)
    validation_height,  \* the number of blocks connected to acc
    last,    \* the del_hashes and the proof of the block connected last
    best_block,    \* the tip of the header chain: [height, hash]
    banned,        \* the peers that served a block that failed validation
    db,            \* the committed tables of the database of KvChainStore
    header_cache,  \* KvChainStore::header_cache, the entry used last first
    index_cache,   \* KvChainStore::index_cache, the entry used last first
    acked,         \* the writes to the store that returned Ok, the latest of each key
    stop_signal,   \* Florestad::stop_signal: the value the RwLock guards
    rwlock,        \* who holds that RwLock: [writer, readers]
    stop_notify,   \* Florestad::stop_notify: the receiver of a shutdown channel, if any
    chan,          \* the shutdown channel: [sender, taken], how often its receiver was taken
    provider,      \* the chain-provider task
    pc,            \* where each caller of the daemon is
    local          \* what each caller holds: the flag read, the receiver taken

\* the state of the chain and the state of the chain store
chain_vars == <<acc, validation_height, last, best_block, banned>>
store_vars == <<db, header_cache, index_cache, acked>>
node_vars == <<stop_signal, rwlock, stop_notify, chan, provider, pc, local>>

vars == <<build, op, args, ret, chain_vars, store_vars, node_vars>>

-----------------------------------------------------------------------------
(* Natural numbers as limb sequences.                                      *)

Base == 2 ^ 15

SetMax(S) == CHOOSE x \in S : \A y \in S : y <= x

MinOf(x, y) == IF x <= y THEN x ELSE y

Norm(b) ==
    LET nz == {i \in 1..Len(b) : b[i] # 0}
    IN  IF nz = {} THEN <<>> ELSE SubSeq(b, 1, SetMax(nz))

\* the number n, for an integer 0 <= n < 2^31
NatOf(n) == Norm(<<n % Base, (n \div Base) % Base, n \div (Base * Base)>>)

\* the integer of a number below 2^31
ToInt(b) ==
    (IF Len(b) >= 1 THEN b[1] ELSE 0)
    + (IF Len(b) >= 2 THEN b[2] * Base ELSE 0)
    + (IF Len(b) >= 3 THEN b[3] * Base * Base ELSE 0)

Limb(b, i) == IF i <= Len(b) THEN b[i] ELSE 0

\* a + b, limb by limb: position i takes a carry when a position below it
\* overflows and every position between passes the carry on
Add(a, b) ==
    LET n == IF Len(a) >= Len(b) THEN Len(a) ELSE Len(b)
        s == [i \in 1..(n + 1) |-> Limb(a, i) + Limb(b, i)]
        carry(i) == \E j \in 1..(i - 1) :
                        /\ s[j] >= Base
                        /\ \A k \in (j + 1)..(i - 1) : s[k] >= Base - 1
    IN  Norm([i \in 1..(n + 1) |-> (s[i] + (IF carry(i) THEN 1 ELSE 0)) % Base])

Lt(a, b) ==
    IF Len(a) # Len(b) THEN Len(a) < Len(b)
    ELSE LET df == {i \in 1..Len(a) : a[i] # b[i]}
         IN  df # {} /\ a[SetMax(df)] < b[SetMax(df)]

Le(a, b) == ~Lt(b, a)

\* a - b for a >= b, limb by limb: position i lends when a position below
\* it falls short and every position between passes the loan on
Sub(a, b) ==
    LET d == [i \in 1..Len(a) |-> a[i] - Limb(b, i)]
        borrow(i) == \E j \in 1..(i - 1) :
                         /\ d[j] < 0
                         /\ \A k \in (j + 1)..(i - 1) : d[k] <= 0
    IN  Norm([i \in 1..Len(a) |-> (d[i] - (IF borrow(i) THEN 1 ELSE 0)) % Base])

\* floor(a / 2^n)
Shr(a, n) ==
    LET q == n \div 15
        r == n % 15
        c == IF q >= Len(a) THEN <<>> ELSE SubSeq(a, q + 1, Len(a))
    IN  Norm([i \in 1..Len(c) |->
                 (c[i] \div (2 ^ r)) + (Limb(c, i + 1) % (2 ^ r)) * (2 ^ (15 - r))])

\* 2^n
Pow2(n) == [i \in 1..(n \div 15) |-> 0] \o <<2 ^ (n % 15)>>

\* a mod 2^w
Wrap(a, w) ==
    LET q == w \div 15
        r == w % 15
    IN  Norm([i \in 1..MinOf(Len(a), q + 1) |->
                 IF i = q + 1 THEN a[i] % (2 ^ r) ELSE a[i]])

\* whether a needs more than w bits
Exceeds(a, w) == Wrap(a, w) # a

\* a * k for an integer 0 <= k < Base: the low halves of the products of
\* the limbs, plus their high halves one limb up
MulSmall(a, k) ==
    Add(Norm([i \in 1..Len(a) |-> (a[i] * k) % Base]),
        Norm(<<0>> \o [i \in 1..Len(a) |-> (a[i] * k) \div Base]))

\* a times the limbs j.. of b
RECURSIVE MulFrom(_, _, _)
MulFrom(a, b, j) ==
    IF j > Len(b) THEN <<>>
    ELSE Add(MulSmall(a, b[j]),
             LET t == MulFrom(a, b, j + 1) IN IF t = <<>> THEN <<>> ELSE <<0>> \o t)

\* a * b, the shorter factor taken limb by limb
Mul(a, b) == IF Len(a) < Len(b) THEN MulFrom(b, a, 1) ELSE MulFrom(a, b, 1)

\* the largest k in {from + j * step : j \in 0..31} with d * k <= r
\* (d * from <= r is given)
DigitStage(r, d, from, step) ==
    from + step * (CHOOSE j \in 0..31 :
                      /\ Le(MulSmall(d, from + j * step), r)
                      /\ j < 31 => ~Le(MulSmall(d, from + (j + 1) * step), r))

\* the largest k in 0..Base-1 with d * k <= r, found 5 bits at a time
Digit(r, d) == DigitStage(r, d, DigitStage(r, d, DigitStage(r, d, 0, 1024), 32), 1)

\* One step of the long division: the quotient and remainder p of the limbs
\* above limb x, extended by x.
DivLimb(x, p, d) ==
    IF Len(p) # 2 THEN p
    ELSE LET r2 == Norm(<<x>> \o p[2])
             q  == Digit(r2, d)
         IN  <<Norm(<<q>> \o p[1]), Sub(r2, MulSmall(d, q))>>

\* Long division, from the top limb of a down.  DivMod(a, d, i, p) is
\* <<quotient, remainder>> of a, given the pair p for the limbs above limb i.
RECURSIVE DivMod(_, _, _, _)
DivMod(a, d, i, p) ==
    IF Len(p) # 2 \/ i = 0 THEN p
    ELSE DivMod(a, d, i - 1, DivLimb(a[i], p, d))

\* floor(a / d) for d > 0
Div(a, d) == DivMod(a, d, Len(a), <<(<<>>), (<<>>)>>)[1]

\* hi * 10^9 + lo, for integers 0 <= hi, lo < 2^31: a number by its decimal
\* digits, the last nine in lo
Dec9(hi, lo) == Add(Mul(NatOf(hi), NatOf(1000000000)), NatOf(lo))

RECURSIVE SumNat(_)
SumNat(s) == IF s = <<>> THEN <<>> ELSE Add(s[1], SumNat(Tail(s)))

-----------------------------------------------------------------------------
(* block_validation.rs: subsidy and BIP34 height.                          *)

\* pub const COIN_VALUE: u64 = 100_000_000
COIN_VALUE == 100000000

\* the width of u32 and of u64
U32 == 32
U64 == 64

\* A u64 addition: the exact sum, the value a wrapping build goes on with
\* and whether the sum overflowed.
U64Add(a, b) ==
    LET s == Add(a, b)
    IN  [exact |-> s, val |-> Wrap(s, U64), overflow |-> Exceeds(s, U64)]

\* Consensus::get_subsidy, for the height and
\* parameters.subsidy_halving_interval (a u64, cast to u32, not 0)
Halvings_next_height(height, subsidy_halving_interval) ==
    Div(Add(height, <<1>>), Wrap(subsidy_halving_interval, U32))

\* height / self.parameters.subsidy_halving_interval as u32
Halvings(height, subsidy_halving_interval) ==
    Div(height, Wrap(subsidy_halving_interval, U32))

get_subsidy(height, subsidy_halving_interval) ==
    LET halvings == Halvings(height, subsidy_halving_interval)
    IN  IF Le(NatOf(64), halvings) THEN <<>>
        ELSE Shr(Mul(NatOf(50), NatOf(COIN_VALUE)), ToInt(halvings))

None == [some |-> FALSE]
Some(v) == [some |-> TRUE, val |-> v]

\* Script::instructions_minimal().next() of rust-bitcoin, for a script
\* shorter than 2^16 bytes: the first instruction of the script, with the
\* minimal-push rule enforced.  "none": the script is empty; "err": the
\* instruction is malformed or not minimally pushed.
FirstInstruction(script) ==
    IF script = <<>> THEN [kind |-> "none"]
    ELSE LET opcode == script[1]
             data   == Tail(script)
             Push(lenBytes, n) ==
                 IF Len(data) < lenBytes + n THEN [kind |-> "err"]
                 ELSE [kind |-> "push",
                       bytes |-> SubSeq(data, lenBytes + 1, lenBytes + n)]
         IN  CASE opcode <= 75 ->
                    IF /\ opcode = 1
                       /\ data # <<>>
                       /\ (data[1] = 129 \/ (data[1] > 0 /\ data[1] <= 16))
                    THEN [kind |-> "err"]
                    ELSE Push(0, opcode)
               [] opcode = 76 ->
                    IF Len(data) < 1 \/ data[1] < 76 THEN [kind |-> "err"]
                    ELSE Push(1, data[1])
               [] opcode = 77 ->
                    IF Len(data) < 2 \/ data[2] = 0 THEN [kind |-> "err"]
                    ELSE Push(2, data[1] + 256 * data[2])
               [] opcode = 78 ->
                    \* a push of 2^16 bytes or more, longer than the script
                    [kind |-> "err"]
               [] OTHER -> [kind |-> "op", opcode |-> opcode]

\* the little-endian magnitude of the bytes v[1..n], for n <= 4, with the
\* sign bit of the last byte cleared
RECURSIVE Magnitude(_, _)
Magnitude(v, i) ==
    IF i > Len(v) THEN 0
    ELSE (IF i = Len(v) THEN v[i] % 128 ELSE v[i]) + 256 * Magnitude(v, i + 1)

\* script::read_scriptint of rust-bitcoin: an i64 as sign and magnitude
read_scriptint(v) ==
    IF v = <<>> THEN [ok |-> TRUE, neg |-> FALSE, mag |-> 0]
    ELSE IF Len(v) > 4 THEN [ok |-> FALSE]
    ELSE IF /\ v[Len(v)] % 128 = 0
            /\ (Len(v) <= 1 \/ v[Len(v) - 1] < 128)
         THEN [ok |-> FALSE]
    ELSE [ok |-> TRUE, neg |-> v[Len(v)] >= 128, mag |-> Magnitude(v, 1)]

\* `h as u32` for an i64 h of magnitude below 2^31: negative values wrap
AsU32(neg, mag) ==
    IF neg /\ mag # 0 THEN Sub(Pow2(U32), NatOf(mag)) ELSE NatOf(mag)

\* an OutPoint (txid, vout); a txid is written as a small number
OutPoint(txid, vout) == [txid |-> txid, vout |-> NatOf(vout)]

\* OutPoint::null(): the all-zero txid and vout u32::MAX
NullOutPoint == [txid |-> 0, vout |-> Sub(Pow2(U32), <<1>>)]

\* Transaction::is_coinbase of rust-bitcoin
is_coinbase(tx) == Len(tx.input) = 1 /\ tx.input[1].previous_output = NullOutPoint

\* Consensus::get_bip34_height: Option<u32>
get_bip34_height(block) ==
    IF block.txdata = <<>> THEN None
    ELSE IF block.txdata[1].input = <<>> THEN None
    ELSE LET push == FirstInstruction(block.txdata[1].input[1].script_sig)
         IN  CASE push.kind = "push" ->
                    LET h == read_scriptint(push.bytes)
                    IN  IF h.ok THEN Some(AsU32(h.neg, h.mag)) ELSE None
               [] push.kind = "op" ->
                    IF push.opcode >= 81 /\ push.opcode <= 96
                    THEN Some(NatOf(push.opcode - 80))
                    ELSE None
               [] OTHER -> None

-----------------------------------------------------------------------------
(* Transactions.  A transaction is [input, output, script_ok]: its inputs  *)
(* [previous_output, script_sig], its outputs' values in satoshis, and      *)
(* whether its input scripts execute successfully.  A utxo table is a       *)
(* function from outpoints to [value, is_coinbase, creation_height].        *)

Ok == "Ok"
Panic == "Panic"

Step(name, n) == [step |-> name, n |-> n]

\* the consensus cap on an amount: 21_000_000 coins
MAX_MONEY == Mul(NatOf(21000000), NatOf(COIN_VALUE))

\* after how many blocks a coinbase output may be spent
COINBASE_MATURITY == 100

Remove(utxos, o) == [x \in (DOMAIN utxos) \ {o} |-> utxos[x]]

\* the inputs i.. of tx: each is looked up in the utxo table and removed
\* from it, then checked for coinbase maturity and script validity
RECURSIVE SpendInputs(_, _, _, _, _)
SpendInputs(tx, utxos, height, verify_script, i) ==
    IF i > Len(tx.input) THEN [err |-> Ok, utxos |-> utxos, values |-> <<>>]
    ELSE LET o == tx.input[i].previous_output
         IN  IF o \notin DOMAIN utxos
             THEN [err |-> "UtxoNotFound", utxos |-> utxos, values |-> <<>>]
             ELSE IF /\ utxos[o].is_coinbase
                     /\ Lt(height, Add(utxos[o].creation_height, NatOf(COINBASE_MATURITY)))
             THEN [err |-> "PrematureCoinbaseSpend", utxos |-> utxos, values |-> <<>>]
             ELSE IF verify_script /\ ~tx.script_ok
             THEN [err |-> "BadScript", utxos |-> utxos, values |-> <<>>]
             ELSE LET rest == SpendInputs(tx, Remove(utxos, o), height, verify_script, i + 1)
                  IN  [err |-> rest.err, utxos |-> rest.utxos,
                       values |-> <<utxos[o].value>> \o rest.values]

\* whether the amounts are each, and together, within MAX_MONEY
InRange(values) ==
    /\ \A i \in 1..Len(values) : Le(values[i], MAX_MONEY)
    /\ Le(SumNat(values), MAX_MONEY)

\* Consensus::verify_transaction (tx_validation.rs): the error, or Ok with
\* (in_value, out_value) and the utxo table without the spent outputs
verify_transaction(tx, utxos, height, verify_script) ==
    LET Err(e) == [err |-> e, utxos |-> utxos, in_value |-> <<>>, out_value |-> <<>>]
        ops == [i \in 1..Len(tx.input) |-> tx.input[i].previous_output]
    IN  IF \E i, j \in 1..Len(ops) : i < j /\ ops[i] = ops[j]
        THEN Err("DuplicateInput")
        ELSE LET spent == SpendInputs(tx, utxos, height, verify_script, 1)
             IN  IF spent.err # Ok THEN Err(spent.err)
                 ELSE IF ~InRange(spent.values) \/ ~InRange(tx.output)
                 THEN Err("AmountOverflow")
                 ELSE IF Lt(SumNat(spent.values), SumNat(tx.output))
                 THEN Err("NegativeFee")
                 ELSE [err |-> Ok, utxos |-> spent.utxos,
                       in_value |-> SumNat(spent.values),
                       out_value |-> SumNat(tx.output)]

\* Consensus::verify_coinbase (tx_validation.rs)
verify_coinbase(tx) ==
    IF /\ is_coinbase(tx)
       /\ Len(tx.input[1].script_sig) >= 2
       /\ Len(tx.input[1].script_sig) <= 100
    THEN Ok
    ELSE "InvalidCoinbase"

\* a u64 subtraction a - b: the value and whether it underflowed
U64Sub(a, b) ==
    IF Le(b, a) THEN [val |-> Sub(a, b), overflow |-> FALSE]
    ELSE [val |-> Sub(Add(Pow2(U64), a), b), overflow |-> TRUE]

\* Iterator::sum over u64 values, from an accumulated [val, overflow]
RECURSIVE U64Sum(_, _, _)
U64Sum(values, i, s) ==
    IF i > Len(values) THEN s
    ELSE LET t == U64Add(s.val, values[i])
         IN  U64Sum(values, i + 1, [val |-> t.val, overflow |-> s.overflow \/ t.overflow])

\* The end of verify_block_transactions: the coinbase reward check.
CheckReward(bld, transactions, subsidy, fee, log) ==
    LET allowed_reward == U64Add(fee, subsidy)
        coinbase_total == U64Sum(transactions[1].output, 1, [val |-> <<>>, overflow |-> FALSE])
        log2           == Append(log, Step("reward", 0))
    IN  IF bld = "debug" /\ (allowed_reward.overflow \/ coinbase_total.overflow)
        THEN [res |-> Panic, log |-> log2]
        ELSE IF Lt(allowed_reward.val, coinbase_total.val)
        THEN [res |-> "BadCoinbaseOutValue", log |-> log2]
        ELSE [res |-> Ok, log |-> log2]

FirstTxVerdict_no_coinbase_test(transaction) == verify_coinbase(transaction)

\* what the loop of verify_block_transactions does with the first
\* transaction: the error it returns, or Ok
FirstTxVerdict(transaction) ==
    IF ~is_coinbase(transaction) THEN "FirstTxIsNotCoinbase"
    ELSE verify_coinbase(transaction)

RECURSIVE TxLoop_fresh_utxos(_, _, _, _, _, _, _, _)
TxLoop_fresh_utxos(bld, height, utxos, transactions, subsidy, verify_script, n, st) ==
    IF n > Len(transactions)
    THEN CheckReward(bld, transactions, subsidy, st.fee, st.log)
    ELSE IF n = 1
    THEN IF FirstTxVerdict(transactions[1]) # Ok
         THEN [res |-> FirstTxVerdict(transactions[1]),
               log |-> IF is_coinbase(transactions[1])
                       THEN Append(st.log, Step("verify_coinbase", 1))
                       ELSE st.log]
         ELSE TxLoop_fresh_utxos(bld, height, utxos, transactions, subsidy, verify_script, 2,
                     [fee |-> st.fee, log |-> Append(st.log, Step("verify_coinbase", 1))])
    ELSE LET v    == verify_transaction(transactions[n], utxos, height, verify_script)
             log2 == Append(st.log, Step("verify_transaction", n))
             diff == U64Sub(v.in_value, v.out_value)
             fee  == U64Add(st.fee, diff.val)
         IN  IF v.err # Ok THEN [res |-> v.err, log |-> log2]
             ELSE IF bld = "debug" /\ (diff.overflow \/ fee.overflow)
             THEN [res |-> Panic, log |-> log2]
             ELSE TxLoop_fresh_utxos(bld, height, utxos, transactions, subsidy,
                                     verify_script, n + 1, [fee |-> fee.val, log |-> log2])

\* The loop of verify_block_transactions, from transaction n on.
RECURSIVE TxLoop(_, _, _, _, _, _, _, _)
TxLoop(bld, height, utxos, transactions, subsidy, verify_script, n, st) ==
    IF n > Len(transactions)
    THEN CheckReward(bld, transactions, subsidy, st.fee, st.log)
    ELSE IF n = 1
    THEN IF FirstTxVerdict(transactions[1]) # Ok
         THEN [res |-> FirstTxVerdict(transactions[1]),
               log |-> IF is_coinbase(transactions[1])
                       THEN Append(st.log, Step("verify_coinbase", 1))
                       ELSE st.log]
         ELSE TxLoop(bld, height, utxos, transactions, subsidy, verify_script, 2,
                     [fee |-> st.fee, log |-> Append(st.log, Step("verify_coinbase", 1))])
    ELSE LET v    == verify_transaction(transactions[n], utxos, height, verify_script)
             log2 == Append(st.log, Step("verify_transaction", n))
             diff == U64Sub(v.in_value, v.out_value)
             fee  == U64Add(st.fee, diff.val)
         IN  IF v.err # Ok THEN [res |-> v.err, log |-> log2]
             ELSE IF bld = "debug" /\ (diff.overflow \/ fee.overflow)
             THEN [res |-> Panic, log |-> log2]
             ELSE TxLoop(bld, height, v.utxos, transactions, subsidy, verify_script,
                         n + 1, [fee |-> fee.val, log |-> log2])

\* Consensus::verify_block_transactions, in a debug or release build bld:
\* [res, log], res being Ok, the error or Panic and log the checks made
verify_block_transactions(bld, height, utxos, transactions, subsidy, verify_script) ==
    IF transactions = <<>> THEN [res |-> "EmptyBlock", log |-> <<>>]
    ELSE TxLoop(bld, height, utxos, transactions, subsidy, verify_script, 1,
                [fee |-> <<>>, log |-> <<>>])

-----------------------------------------------------------------------------
(* mod.rs: the header checks.  A header is [time, bits]: its u32 time as a  *)
(* number and its compact target as an integer below 2^31.  A target is a   *)
(* 256-bit number.                                                          *)

\* a u32 subtraction a - b: the value and whether it underflowed
U32Sub(a, b) ==
    IF Le(b, a) THEN [val |-> Sub(a, b), overflow |-> FALSE]
    ELSE [val |-> Sub(Add(Pow2(U32), a), b), overflow |-> TRUE]

\* Consensus::check_bip94_time, in a debug or release build bld
check_bip94_time(bld, block, prev_block) ==
    LET limit == U32Sub(prev_block.time, NatOf(600))
    IN  IF bld = "debug" /\ limit.overflow THEN [res |-> Panic]
        ELSE IF Lt(block.time, limit.val) THEN [res |-> "BIP94TimeWarp"]
        ELSE [res |-> Ok]

\* the width of a target
U256 == 256

\* the number of bits of a number
BitLen(a) ==
    IF a = <<>> THEN 0
    ELSE 15 * (Len(a) - 1) + (CHOOSE k \in 1..15 : 2 ^ (k - 1) <= a[Len(a)] /\ a[Len(a)] < 2 ^ k)

\* Target::from_compact of rust-bitcoin (CompactTarget into Target)
from_compact(bits) ==
    LET unshifted_expt == bits \div (2 ^ 24)
        mant == IF unshifted_expt <= 3
                THEN (bits % (2 ^ 24)) \div (2 ^ (8 * (3 - unshifted_expt)))
                ELSE bits % (2 ^ 24)
        expt == IF unshifted_expt <= 3 THEN 0 ELSE 8 * (unshifted_expt - 3)
    IN  IF mant > 8388607 THEN <<>>
        ELSE Wrap(Mul(NatOf(mant), Pow2(expt % U256)), U256)

\* Target::to_compact_lossy of rust-bitcoin
to_compact_lossy(target) ==
    LET size == (BitLen(target) + 7) \div 8
        compact == IF size <= 3
                   THEN (ToInt(target) * (2 ^ (8 * (3 - size)))) % (2 ^ 24)
                   ELSE ToInt(Wrap(Shr(target, 8 * (size - 3)), U32))
    IN  IF (compact \div 8388608) % 2 = 1
        THEN (compact \div 256) + (size + 1) * (2 ^ 24)
        ELSE compact + size * (2 ^ 24)

\* Target::max_transition_threshold of rust-bitcoin
max_transition_threshold(target, params) ==
    LET unchecked == Wrap(Mul(target, NatOf(4)), U256)
    IN  IF Lt(unchecked, params.max_attainable_target) THEN unchecked
        ELSE params.max_attainable_target

\* u64::clamp
Clamp(x, lo, hi) == IF Lt(x, lo) THEN lo ELSE IF Lt(hi, x) THEN hi ELSE x

\* CompactTarget::from_next_work_required of rust-bitcoin, for a target
\* whose product with the timespan stays below 2^256
from_next_work_required(last_bits, timespan, params) ==
    IF params.no_pow_retargeting THEN last_bits
    ELSE LET min_timespan == Shr(params.pow_target_timespan, 2)
             max_timespan == Wrap(Mul(params.pow_target_timespan, NatOf(4)), U64)
             actual_timespan == Clamp(timespan, min_timespan, max_timespan)
             prev_target == from_compact(last_bits)
             maximum_retarget == max_transition_threshold(prev_target, params)
             retarget == Div(Wrap(Mul(prev_target, actual_timespan), U256),
                             params.pow_target_timespan)
         IN  IF Le(maximum_retarget, retarget) THEN to_compact_lossy(maximum_retarget)
             ELSE to_compact_lossy(retarget)

BaseBits_always_last(last_block, first_block, params) == last_block.bits

\* let bits = match params.enforce_bip94 { true => first_block.bits, ... }
BaseBits(last_block, first_block, params) ==
    IF params.enforce_bip94 THEN first_block.bits ELSE last_block.bits

\* Consensus::calc_next_work_required, in a debug or release build bld
calc_next_work_required(bld, last_block, first_block, params) ==
    LET actual_timespan == U32Sub(last_block.time, first_block.time)
        bits == BaseBits(last_block, first_block, params)
    IN  IF bld = "debug" /\ actual_timespan.overflow THEN [res |-> Panic]
        ELSE [res |-> Ok,
              target |-> from_compact(
                             from_next_work_required(bits, actual_timespan.val, params))]

-----------------------------------------------------------------------------
(* Blocks.  A block is [root_matches, commitment_ok, weight, txdata]:       *)
(* whether the header's Merkle root is the root of txdata, the verdict of   *)
(* the witness-commitment check, the weight in weight units and the         *)
(* transactions.                                                            *)

check_merkle_root_any(block) == block.txdata # <<>>

\* Block::check_merkle_root of rust-bitcoin: no root is computed for an
\* empty transaction list
check_merkle_root(block) == block.txdata # <<>> /\ block.root_matches

\* Block::check_witness_commitment of rust-bitcoin
check_witness_commitment(block) == block.commitment_ok

\* the limit on block.weight().to_wu()
MAX_BLOCK_WEIGHT == 4000000

BlockTooBig_at_limit(block) == block.weight >= MAX_BLOCK_WEIGHT

\* block.weight().to_wu() > 4_000_000
BlockTooBig(block) == block.weight > MAX_BLOCK_WEIGHT

\* Consensus::validate_block_no_acc, for the parameters params =
\* [subsidy_halving_interval, bip34_height] of the chain: [res, log]
validate_block_no_acc(bld, params, block, height, inputs, verify_script) ==
    IF ~check_merkle_root(block)
    THEN [res |-> "BadMerkleRoot", log |-> <<Step("merkle_root", 0)>>]
    ELSE IF /\ Le(params.bip34_height, height)
            /\ get_bip34_height(block) # Some(height)
    THEN [res |-> "BadBip34", log |-> <<Step("merkle_root", 0), Step("bip34", 0)>>]
    ELSE IF ~check_witness_commitment(block)
    THEN [res |-> "BadWitnessCommitment",
          log |-> <<Step("merkle_root", 0), Step("bip34", 0), Step("witness", 0)>>]
    ELSE IF BlockTooBig(block)
    THEN [res |-> "BlockTooBig",
          log |-> <<Step("merkle_root", 0), Step("bip34", 0), Step("witness", 0),
                    Step("weight", 0)>>]
    ELSE LET subsidy == get_subsidy(height, params.subsidy_halving_interval)
             r == verify_block_transactions(bld, height, inputs, block.txdata,
                                            subsidy, verify_script)
         IN  [res |-> r.res,
              log |-> <<Step("merkle_root", 0), Step("bip34", 0), Step("witness", 0),
                        Step("weight", 0)>> \o r.log]

-----------------------------------------------------------------------------
(* The calls made on the consensus functions: blocks, heights and chain    *)
(* parameters a peer or a network can present.                             *)

\* the most non-coinbase transactions of a block
MaxTx == 2
\* the most outputs of a coinbase
MaxOut == 2

\* the sequences of length 0..n over S
SeqsUpTo(S, n) == UNION {[1..k -> S] : k \in 0..n}

Builds == {"debug", "release"}

\* subsidy_halving_interval of regtest and of the other networks
HalvingIntervals == {NatOf(150), NatOf(210000)}

\* activation heights of BIP34: signet and testnet4, mainnet
Bip34Heights == {NatOf(1), NatOf(227931)}

ChainParams == [subsidy_halving_interval : HalvingIntervals, bip34_height : Bip34Heights]

Regtest == [subsidy_halving_interval |-> NatOf(150), bip34_height |-> NatOf(100000000)]

MaxU32 == Sub(Pow2(U32), <<1>>)

SubsidyHeights ==
    {NatOf(0), NatOf(1), NatOf(149), NatOf(150), NatOf(209999), NatOf(210000),
     NatOf(419999), NatOf(420000), NatOf(6929999), NatOf(6930000),
     NatOf(13439999), NatOf(13440000), NatOf(2147483647), Pow2(31), MaxU32}

\* coinbase script_sigs: pushes of 227_836 and 227_837, OP_16, OP_1, pushes
\* of 16 and 17, of -1, -2, -(2^31 - 1) and -0, the empty script, OP_0, a
\* 5-byte push, two 2-byte pushes with a zero top byte, a truncated push,
\* OP_PUSHDATA1 and OP_PUSHDATA2 pushes, OP_1NEGATE and OP_NOP
Push227836 == <<3, 252, 121, 3>>
ScriptSigs ==
    {Push227836, <<3, 253, 121, 3>>, <<96, 0>>, <<81, 0>>, <<1, 16>>, <<1, 17>>,
     <<1, 129>>, <<1, 130>>, <<4, 255, 255, 255, 255>>, <<1, 128>>, <<>>, <<0, 0>>,
     <<5, 1, 2, 3, 4, 5>>, <<2, 16, 0>>, <<2, 255, 0>>, <<3, 1>>, <<76, 1, 5>>,
     <<77, 1, 0, 5>>, <<79, 0>>, <<97, 0>>}

BlockHeights ==
    {NatOf(0), NatOf(1), NatOf(16), NatOf(17), NatOf(255), NatOf(227836),
     NatOf(227837), Add(Pow2(31), <<1>>), Sub(MaxU32, <<1>>)}

Coinbase(script_sig, outs) ==
    [input |-> <<[previous_output |-> NullOutPoint, script_sig |-> script_sig]>>,
     output |-> outs, script_ok |-> TRUE]

Spend(script_sig, ops, outs, script_ok) ==
    [input |-> [i \in 1..Len(ops) |-> [previous_output |-> ops[i], script_sig |-> script_sig]],
     output |-> outs, script_ok |-> script_ok]

Block(root_matches, commitment_ok, weight, txdata) ==
    [root_matches |-> root_matches, commitment_ok |-> commitment_ok,
     weight |-> weight, txdata |-> txdata]

\* The reward cases are at regtest height 100: the subsidy is 50 coins.
RewardHeight == NatOf(100)
Subsidy50 == Dec9(5, 0)

UtxoA == OutPoint(101, 0)
UtxoB == OutPoint(102, 0)
UtxoC == OutPoint(103, 0)
UtxoD == OutPoint(104, 0)
\* an output that is in no utxo table
UtxoZ == OutPoint(105, 0)

\* the utxos the transactions below spend: UtxoC and UtxoD are coinbase
\* outputs, 99 and 100 blocks old at RewardHeight
Utxos ==
    [o \in {UtxoA, UtxoB, UtxoC, UtxoD} |->
        CASE o = UtxoA -> [value |-> NatOf(1000), is_coinbase |-> FALSE, creation_height |-> NatOf(50)]
          [] o = UtxoB -> [value |-> MAX_MONEY, is_coinbase |-> FALSE, creation_height |-> NatOf(50)]
          [] o = UtxoC -> [value |-> NatOf(50), is_coinbase |-> TRUE, creation_height |-> NatOf(1)]
          [] o = UtxoD -> [value |-> NatOf(50), is_coinbase |-> TRUE, creation_height |-> NatOf(0)]]

\* non-coinbase transactions: fees of 100, of MAX_MONEY and of 50, a
\* negative fee, an unknown output, a failing script, a premature coinbase
\* spend, a duplicate input and two inputs the second of which is that of
\* the first transaction
TxSamples ==
    {Spend(<<>>, <<UtxoA>>, <<NatOf(900)>>, TRUE),
     Spend(<<>>, <<UtxoB>>, <<(<<>>)>>, TRUE),
     Spend(<<>>, <<UtxoD>>, <<(<<>>)>>, TRUE),
     Spend(<<>>, <<UtxoA>>, <<NatOf(1001)>>, TRUE),
     Spend(<<>>, <<UtxoZ>>, <<NatOf(1)>>, TRUE),
     Spend(<<>>, <<UtxoA>>, <<NatOf(1000)>>, FALSE),
     Spend(<<>>, <<UtxoC>>, <<NatOf(50)>>, TRUE),
     Spend(<<>>, <<UtxoA, UtxoA>>, <<NatOf(2000)>>, TRUE),
     Spend(<<>>, <<UtxoD, UtxoA>>, <<NatOf(1000)>>, TRUE)}

\* coinbase output values around the subsidy, the subsidy plus a fee of
\* 100, and large enough for their sum to pass 2^64
CbValues ==
    {<<>>, Dec9(4, 999999999), Subsidy50, Dec9(5, 1), Dec9(5, 100), Dec9(5, 101),
     Pow2(63)}

RewardCase(outs, rest, verify_script) ==
    [params |-> Regtest, height |-> RewardHeight, inputs |-> Utxos,
     verify_script |-> verify_script,
     block |-> Block(TRUE, TRUE, 1000, <<Coinbase(<<1, 100>>, outs)>> \o rest)]

\* every coinbase output list with few transactions, and every transaction
\* list with few coinbase output lists
RewardCases ==
    {RewardCase(outs, rest, TRUE) :
        outs \in SeqsUpTo(CbValues, MaxOut),
        rest \in {<<>>, <<Spend(<<>>, <<UtxoA>>, <<NatOf(900)>>, TRUE)>>}}
    \cup
    {RewardCase(outs, rest, vs) :
        outs \in {<<Subsidy50>>, <<Dec9(5, 100)>>, <<Dec9(5, 101)>>},
        rest \in SeqsUpTo(TxSamples, MaxTx), vs \in BOOLEAN}

\* one-transaction blocks: every coinbase script_sig at every height
Bip34Cases ==
    {[params |-> p, height |-> h, inputs |-> Utxos, verify_script |-> TRUE,
      block |-> Block(TRUE, TRUE, 1000, <<Coinbase(ss, <<(<<>>)>>)>>)] :
        p \in ChainParams, h \in BlockHeights, ss \in ScriptSigs}

\* first transactions: a coinbase pushing 227_836, one pushing 227_837, one
\* with a 1-byte script_sig and one with a 101-byte script_sig, and a
\* non-coinbase transaction whose first script_sig pushes 227_836
FirstTxs(outs) ==
    {Coinbase(Push227836, outs), Coinbase(<<3, 253, 121, 3>>, outs),
     Coinbase(<<96>>, outs), Coinbase(Push227836 \o [i \in 1..97 |-> 0], outs),
     Spend(Push227836, <<UtxoA>>, outs, TRUE)}

\* blocks failing any combination of the checks, at heights 227_836
\* (BIP34 active on signet, not yet on mainnet) and 16
OrderCases ==
    {[params |-> [subsidy_halving_interval |-> NatOf(210000), bip34_height |-> b],
      height |-> h, inputs |-> Utxos, verify_script |-> TRUE,
      block |-> Block(rm, co, w, txs)] :
        b \in Bip34Heights, h \in {NatOf(227836), NatOf(16)}, rm \in BOOLEAN,
        co \in BOOLEAN,
        w \in {MAX_BLOCK_WEIGHT - 1, MAX_BLOCK_WEIGHT, MAX_BLOCK_WEIGHT + 1},
        txs \in {<<>>} \cup
                {<<f>> \o rest :
                    f \in FirstTxs(<<Dec9(2, 500000000)>>) \cup FirstTxs(<<Dec9(2, 500000001)>>),
                    rest \in {<<>>,
                              <<Spend(<<>>, <<UtxoA>>, <<NatOf(1001)>>, TRUE)>>,
                              <<Spend(<<>>, <<UtxoZ>>, <<NatOf(1)>>, TRUE),
                                Spend(<<>>, <<UtxoA>>, <<NatOf(1001)>>, TRUE)>>}}}

ValidateCases == RewardCases \cup Bip34Cases \cup OrderCases

CallGetSubsidy ==
    \E h \in SubsidyHeights, i \in HalvingIntervals :
        /\ op = "none"
        /\ op' = "get_subsidy"
        /\ args' = [height |-> h, subsidy_halving_interval |-> i]
        /\ ret' = get_subsidy(h, i)
        /\ UNCHANGED <<build, chain_vars, store_vars, node_vars>>

CallGetBip34Height ==
    \E c \in Bip34Cases \cup OrderCases :
        /\ op = "none"
        /\ op' = "get_bip34_height"
        /\ args' = [block |-> c.block]
        /\ ret' = get_bip34_height(c.block)
        /\ UNCHANGED <<build, chain_vars, store_vars, node_vars>>

CallVerifyBlockTransactions ==
    \E c \in RewardCases \cup OrderCases :
        /\ op = "none"
        /\ op' = "verify_block_transactions"
        /\ args' = [height |-> c.height, utxos |-> c.inputs,
                    transactions |-> c.block.txdata,
                    subsidy |-> get_subsidy(c.height, c.params.subsidy_halving_interval),
                    verify_script |-> c.verify_script]
        /\ ret' = verify_block_transactions(build, args'.height, args'.utxos,
                       args'.transactions, args'.subsidy, args'.verify_script)
        /\ UNCHANGED <<build, chain_vars, store_vars, node_vars>>

CallValidateBlockNoAcc ==
    \E c \in ValidateCases :
        /\ op = "none"
        /\ op' = "validate_block_no_acc"
        /\ args' = c
        /\ ret' = validate_block_no_acc(build, c.params, c.block, c.height, c.inputs,
                                        c.verify_script)
        /\ UNCHANGED <<build, chain_vars, store_vars, node_vars>>

\* header times around the 600 seconds of BIP94 and at the ends of u32
HeaderTimes ==
    {NatOf(0), NatOf(1), NatOf(599), NatOf(600), NatOf(601), NatOf(1200),
     NatOf(1201), NatOf(1700000000), NatOf(1700000600), NatOf(1700000601),
     Sub(Pow2(U32), NatOf(601)), MaxU32}

\* the proof-of-work parameters of mainnet, testnet4, signet and regtest
TwoWeeks == NatOf(1209600)
Mainnet ==
    [enforce_bip94 |-> FALSE, no_pow_retargeting |-> FALSE,
     pow_target_timespan |-> TwoWeeks, max_attainable_target |-> from_compact(486604799)]
Testnet4 == [Mainnet EXCEPT !.enforce_bip94 = TRUE]
Signet == [Mainnet EXCEPT !.max_attainable_target = from_compact(503543726)]
RegtestWork ==
    [Mainnet EXCEPT !.no_pow_retargeting = TRUE,
                    !.max_attainable_target = from_compact(545259519)]

\* the compact targets headers of a network carry: its limit and harder ones
NetworkBits(params) ==
    IF params = Signet THEN {503543726, 486604799}
    ELSE IF params = RegtestWork THEN {545259519, 486604799}
    ELSE {486604799, 453248203, 436591499}

\* the time of the first block of a period, and the seconds from it to the
\* last: a last block that is earlier, one at the same time, and spans
\* around a quarter of, once and four times the target timespan
PeriodStart == NatOf(1700000000)
PeriodEnds ==
    {Sub(PeriodStart, NatOf(1209600)), Sub(PeriodStart, <<1>>), PeriodStart}
    \cup {Add(PeriodStart, NatOf(d)) :
              d \in {1, 302399, 302400, 302401, 1209600, 1500000, 4838400, 4838401}}

CallCheckBip94Time ==
    /\ op = "none"
    /\ \E time \in HeaderTimes, prev_time \in HeaderTimes :
        /\ op' = "check_bip94_time"
        /\ args' = [block |-> [time |-> time], prev_block |-> [time |-> prev_time]]
        /\ ret' = check_bip94_time(build, args'.block, args'.prev_block)
        /\ UNCHANGED <<build, chain_vars, store_vars, node_vars>>

CallCalcNextWorkRequired ==
    /\ op = "none"
    /\ \E params \in {Mainnet, Testnet4, Signet, RegtestWork}, last_time \in PeriodEnds :
        \E last_bits \in NetworkBits(params), first_bits \in NetworkBits(params) :
            /\ op' = "calc_next_work_required"
            /\ args' = [last_block |-> [time |-> last_time, bits |-> last_bits],
                        first_block |-> [time |-> PeriodStart, bits |-> first_bits],
                        params |-> params]
            /\ ret' = calc_next_work_required(build, args'.last_block,
                                              args'.first_block, params)
            /\ UNCHANGED <<build, chain_vars, store_vars, node_vars>>

\* the caller takes the result: the next call can be made
Return ==
    /\ op # "none"
    /\ op' = "none"
    /\ args' = <<>>
    /\ ret' = <<>>
    /\ UNCHANGED <<build, chain_vars, store_vars, node_vars>>

Init ==
    /\ build \in Builds
    /\ op = "none"
    /\ args = <<>>
    /\ ret = <<>>
    /\ acc = [leaves |-> 0, roots |-> <<>>]
    /\ validation_height = 0
    /\ last = [del_hashes |-> <<>>, proof |-> [targets |-> <<>>, hashes |-> <<>>]]
    /\ best_block = [height |-> 0, hash |-> 0]
    /\ banned = {}
    /\ db = [headers |-> <<>>, index |-> <<>>, meta |-> <<>>, roots |-> <<>>]
    /\ header_cache = <<>>
    /\ index_cache = <<>>
    /\ acked = [headers |-> <<>>, index |-> <<>>, height |-> [some |-> FALSE],
                roots |-> <<>>, flushed |-> FALSE]
    /\ stop_signal = FALSE
    /\ rwlock = [writer |-> "none", readers |-> {}]
    /\ stop_notify = [some |-> FALSE]
    /\ chan = [sender |-> "none", taken |-> 0]
    /\ provider = "none"
    /\ pc = [p \in {"stop", "rpc", "should_stop", "wait1", "wait2"} |-> "idle"]
    /\ local = [p \in {"stop", "rpc", "should_stop", "wait1", "wait2"} |-> [some |-> FALSE]]

Next ==
    \/ CallGetSubsidy
    \/ CallGetBip34Height
    \/ CallVerifyBlockTransactions
    \/ CallValidateBlockNoAcc
    \/ CallCheckBip94Time
    \/ CallCalcNextWorkRequired
    \/ Return

Spec == Init /\ [][Next]_vars

-----------------------------------------------------------------------------
(* The accumulator.  A hash is modelled as the value it commits to, so     *)
(* that two hashes are equal iff their preimages are (collision            *)
(* resistance): a leaf hash is a sequence of 32 bytes, the hash of a node  *)
(* is the pair of its children's hashes, and the empty hash, which marks   *)
(* a deleted subtree, is <<>>.                                             *)

Empty == <<>>
parent_hash(l, r) == <<l, r>>

UNSPENDABLE_BIP30_UTXO_91722 ==
    <<132, 179, 175, 7, 131, 180, 16, 180, 86, 76, 93, 31, 54, 24, 104, 85,
      159, 124, 247, 124, 252, 101, 206, 43, 233, 81, 33, 3, 87, 2, 47, 227>>

UNSPENDABLE_BIP30_UTXO_91812 ==
    <<188, 107, 75, 247, 206, 187, 211, 58, 24, 214, 176, 254, 31, 142, 204, 122,
      165, 64, 48, 131, 195, 158, 227, 67, 185, 133, 213, 31, 208, 41, 90, 216>>

contains_unspendable_utxo_first_only(del_hashes) ==
    /\ del_hashes # <<>>
    /\ \/ del_hashes[1] = UNSPENDABLE_BIP30_UTXO_91722
       \/ del_hashes[1] = UNSPENDABLE_BIP30_UTXO_91812

contains_unspendable_utxo(del_hashes) ==
    \E i \in 1..Len(del_hashes) :
        \/ del_hashes[i] = UNSPENDABLE_BIP30_UTXO_91722
        \/ del_hashes[i] = UNSPENDABLE_BIP30_UTXO_91812

\* The coinbase transactions of blocks 91722 and 91812, whose first outputs
\* are the leaves with the two hashes above.
Txid91722 == 91
Txid91812 == 92

\* The leaf hash of an output: the two historic outputs hash to the BIP30
\* constants, every other output to 32 bytes of its own.
LeafHash(outpoint, h, is_cb) ==
    IF outpoint = OutPoint(Txid91722, 0) THEN UNSPENDABLE_BIP30_UTXO_91722
    ELSE IF outpoint = OutPoint(Txid91812, 0) THEN UNSPENDABLE_BIP30_UTXO_91812
    ELSE [i \in 1..32 |-> CASE i = 1 -> outpoint.txid
                            [] i = 2 -> ToInt(outpoint.vout)
                            [] i = 3 -> 2 * h + (IF is_cb THEN 1 ELSE 0)
                            [] OTHER -> 0]

\* the outputs of the transactions t.. of a block, in block order
RECURSIVE BlockOutputs(_, _)
BlockOutputs(txdata, t) ==
    IF t > Len(txdata) THEN <<>>
    ELSE [v \in 1..Len(txdata[t].output) |->
             [outpoint |-> OutPoint(txdata[t].txid, v - 1),
              is_cb |-> is_coinbase(txdata[t]),
              script_pubkey |-> txdata[t].output[v].script_pubkey]]
         \o BlockOutputs(txdata, t + 1)

\* the outpoints spent by the block
BlockSpends(txdata) ==
    UNION {{txdata[t].input[i].previous_output : i \in 1..Len(txdata[t].input)} :
              t \in 1..Len(txdata)}

\* The leaves a block adds: one per output that is not provably unspendable
\* and not spent in the block itself.
get_block_adds(block, h, block_hash) ==
    LET added(o) ==
            /\ o.script_pubkey = "spendable"
            /\ o.outpoint \notin BlockSpends(block.txdata)
        outs == SelectSeq(BlockOutputs(block.txdata, 1), added)
    IN  [i \in 1..Len(outs) |-> LeafHash(outs[i].outpoint, h, outs[i].is_cb)]

\* The positions of the forest with leaves_n leaves: row 0 holds the leaves,
\* the rows above follow, each half as long.
tree_rows(leaves_n) == CHOOSE r \in 0..leaves_n : 2 ^ r >= leaves_n /\ (r = 0 \/ 2 ^ (r - 1) < leaves_n)
RowStart(row, rows) == 2 ^ (rows + 1) - 2 ^ (rows + 1 - row)
detect_row(pos, rows) == CHOOSE r \in 0..rows : RowStart(r, rows) <= pos /\ pos < RowStart(r + 1, rows)
parent(pos, rows) == (pos \div 2) + 2 ^ rows
left_child(pos, rows) == 2 * pos - 2 ^ (rows + 1)
HasRoot(leaves_n, row) == (leaves_n \div (2 ^ row)) % 2 = 1
root_position(leaves_n, row, rows) == RowStart(row, rows) + 2 * (leaves_n \div (2 ^ (row + 1)))
is_root_position(pos, leaves_n, rows) ==
    /\ pos <= RowStart(rows, rows)
    /\ HasRoot(leaves_n, detect_row(pos, rows))
    /\ root_position(leaves_n, detect_row(pos, rows), rows) = pos

\* a node among nodes sorted by position
InsertNode(n, nodes) ==
    LET k == Cardinality({i \in 1..Len(nodes) : nodes[i].pos <= n.pos})
    IN  SubSeq(nodes, 1, k) \o <<n>> \o SubSeq(nodes, k + 1, Len(nodes))

RECURSIVE SortNodes(_)
SortNodes(nodes) ==
    IF nodes = <<>> THEN <<>> ELSE InsertNode(Head(nodes), SortNodes(Tail(nodes)))

\* after a deletion the sibling of a deleted node takes the parent's place
parent_hash_delete(l, r) ==
    IF l = Empty THEN r ELSE IF r = Empty THEN l ELSE parent_hash(l, r)

\* Proof::calculate_hashes_delete: from the targets up to the roots, taking
\* the sibling that is not itself computed from the proof; old is the hash
\* before the deletion, new the one after.
RECURSIVE calculate_hashes_delete(_, _, _, _, _)
calculate_hashes_delete(nodes, hashes, leaves_n, rows, computed) ==
    IF nodes = <<>> THEN [ok |-> TRUE, roots |-> computed]
    ELSE LET n == Head(nodes)
             rest == Tail(nodes)
             sibling == IF n.pos % 2 = 0 THEN n.pos + 1 ELSE n.pos - 1
             paired == rest # <<>> /\ Head(rest).pos = sibling
         IN  IF n.pos > RowStart(rows, rows) THEN [ok |-> FALSE]
             ELSE IF is_root_position(n.pos, leaves_n, rows)
             THEN calculate_hashes_delete(rest, hashes, leaves_n, rows, Append(computed, n))
             ELSE IF n.pos = RowStart(rows, rows) \/ (~paired /\ hashes = <<>>)
             THEN [ok |-> FALSE]
             ELSE LET s == IF paired THEN Head(rest)
                           ELSE [pos |-> sibling, old |-> Head(hashes), new |-> Head(hashes)]
                      l == IF n.pos % 2 = 0 THEN n ELSE s
                      r == IF n.pos % 2 = 0 THEN s ELSE n
                      up == [pos |-> parent(n.pos, rows),
                             old |-> parent_hash(l.old, r.old),
                             new |-> parent_hash_delete(l.new, r.new)]
                  IN  calculate_hashes_delete(
                          InsertNode(up, IF paired THEN Tail(rest) ELSE rest),
                          IF paired THEN hashes ELSE Tail(hashes),
                          leaves_n, rows, computed)

\* every root that a computed root matches is replaced by the root after
\* the deletion; a computed root that matches none makes the proof invalid
RECURSIVE ReplaceRoots(_, _, _)
ReplaceRoots(roots, computed, i) ==
    IF i > Len(roots)
    THEN [ok |-> computed = <<>>, roots |-> roots]
    ELSE LET hit == {k \in 1..Len(computed) : computed[k].old = roots[i]}
         IN  IF hit = {} THEN ReplaceRoots(roots, computed, i + 1)
             ELSE LET k == CHOOSE x \in hit : \A y \in hit : x <= y
                  IN  ReplaceRoots([roots EXCEPT ![i] = computed[k].new],
                                   SubSeq(computed, 1, k - 1)
                                       \o SubSeq(computed, k + 1, Len(computed)),
                                   i + 1)

\* Stump::add of one leaf: the roots of the trees the new leaf completes
\* are joined with it, an empty one leaving it as it is
RECURSIVE AddLeaf(_, _, _, _)
AddLeaf(roots, leaves_n, to_add, h) ==
    IF HasRoot(leaves_n, h)
    THEN AddLeaf(SubSeq(roots, 1, Len(roots) - 1), leaves_n,
                 IF roots[Len(roots)] = Empty THEN to_add
                 ELSE parent_hash(roots[Len(roots)], to_add),
                 h + 1)
    ELSE Append(roots, to_add)

RECURSIVE StumpAdd(_, _, _)
StumpAdd(stump, utxos, i) ==
    IF i > Len(utxos) THEN stump
    ELSE StumpAdd([leaves |-> stump.leaves + 1,
                   roots |-> AddLeaf(stump.roots, stump.leaves, utxos[i], 0)],
                  utxos, i + 1)

\* Stump::modify: the proof is verified against the roots while the roots
\* after the deletion are computed; then the additions.  The stump given
\* is only read.
modify(stump, utxos, del_hashes, proof) ==
    IF Len(proof.targets) # Len(del_hashes) THEN [ok |-> FALSE]
    ELSE LET rows == tree_rows(stump.leaves)
             nodes == SortNodes([i \in 1..Len(del_hashes) |->
                          [pos |-> proof.targets[i], old |-> del_hashes[i], new |-> Empty]])
             up == calculate_hashes_delete(nodes, proof.hashes, stump.leaves, rows, <<>>)
         IN  IF ~up.ok THEN [ok |-> FALSE]
             ELSE LET replaced == ReplaceRoots(stump.roots, up.roots, 1)
                  IN  IF ~replaced.ok THEN [ok |-> FALSE]
                      ELSE [ok |-> TRUE,
                            stump |-> StumpAdd([leaves |-> stump.leaves,
                                                roots |-> replaced.roots], utxos, 1)]

update_acc_counts_live(stump, block, h, proof, del_hashes) ==
    IF contains_unspendable_utxo(del_hashes) THEN [res |-> "UnspendableUTXO"]
    ELSE LET adds == get_block_adds(block, h, block.hash)
             m == modify(stump, adds, del_hashes, proof)
         IN  IF m.ok
             THEN [res |-> Ok,
                   acc |-> [leaves |-> m.stump.leaves - Len(del_hashes),
                            roots |-> m.stump.roots]]
             ELSE [res |-> "BadAccumulatorProof"]

update_acc_drops_deletions(stump, block, h, proof, del_hashes) ==
    IF contains_unspendable_utxo(del_hashes) THEN [res |-> "UnspendableUTXO"]
    ELSE LET adds == get_block_adds(block, h, block.hash)
             m == modify(stump, adds, <<>>, [targets |-> <<>>, hashes |-> <<>>])
         IN  IF m.ok THEN [res |-> Ok, acc |-> m.stump]
             ELSE [res |-> "BadAccumulatorProof"]

update_acc(stump, block, h, proof, del_hashes) ==
    IF contains_unspendable_utxo(del_hashes) THEN [res |-> "UnspendableUTXO"]
    ELSE LET adds == get_block_adds(block, h, block.hash)
             m == modify(stump, adds, del_hashes, proof)
         IN  IF m.ok THEN [res |-> Ok, acc |-> m.stump]
             ELSE [res |-> "BadAccumulatorProof"]

StumpOfCaller_emptied(stump, result) ==
    IF result.res = Ok THEN stump ELSE [leaves |-> 0, roots |-> <<>>]

StumpOfCaller_overwritten(stump, result) ==
    IF result.res = Ok THEN result.acc ELSE stump

\* update_acc borrows the caller's stump (acc: &Stump) and binds what modify
\* returns to a new local: the caller's stump after the call is the one
\* before it
StumpOfCaller(stump, result) == stump

-----------------------------------------------------------------------------
(* The chain state.  A block of the chain is [hash, root_matches,          *)
(* commitment_ok, weight, txdata] with transactions [txid, input, output,  *)
(* script_ok] whose outputs are [value, script_pubkey].                    *)

\* the block as the validator of transactions reads it: every output by
\* its value
TxValues(block) ==
    [root_matches |-> block.root_matches, commitment_ok |-> block.commitment_ok,
     weight |-> block.weight,
     txdata |-> [t \in 1..Len(block.txdata) |->
                    [input |-> block.txdata[t].input,
                     output |-> [v \in 1..Len(block.txdata[t].output) |->
                                    block.txdata[t].output[v].value],
                     script_ok |-> block.txdata[t].script_ok]]]

\* ChainState::connect_block on the chain state chain = [acc,
\* validation_height]: the block is validated at the height after the
\* last one connected, then the accumulator is updated; the chain state
\* advances only when both succeed.
connect_block(bld, params, chain, block, inputs, proof, del_hashes) ==
    LET height == chain.validation_height + 1
        valid == validate_block_no_acc(bld, params, TxValues(block), NatOf(height),
                                       inputs, TRUE)
        updated == update_acc(chain.acc, block, height, proof, del_hashes)
    IN  IF valid.res # Ok
        THEN [res |-> valid.res, acc |-> chain.acc,
              validation_height |-> chain.validation_height]
        ELSE IF updated.res # Ok
        THEN [res |-> updated.res, acc |-> StumpOfCaller(chain.acc, updated),
              validation_height |-> chain.validation_height]
        ELSE [res |-> Ok, acc |-> updated.acc, validation_height |-> height]

\* the hash of the header at a height of the best chain
HeaderHash(height) == IF height = 0 THEN 0 ELSE 1000 + height

\* ChainState::accept_header: the header that extends the tip becomes the
\* tip
accept_header(tip, header) ==
    IF header.prev_hash = tip.hash
    THEN [height |-> tip.height + 1, hash |-> header.hash]
    ELSE tip

-----------------------------------------------------------------------------
(* The callers of update_acc: the chain state, which connects a block by   *)
(* taking the stump update_acc returned, and the peers, which supply the   *)
(* blocks, the hashes to delete and the proofs, valid or not.              *)

\* the blocks connected at most, and the hashes deleted by one block at most
MaxHeight == 2
MaxDel == 2

EmptyProof == [targets |-> <<>>, hashes |-> <<>>]

AccTx(txid, ops, scripts) ==
    [txid |-> txid,
     input |-> [i \in 1..Len(ops) |-> [previous_output |-> ops[i], script_sig |-> <<1, 1>>]],
     output |-> [i \in 1..Len(scripts) |-> [script_pubkey |-> scripts[i]]]]

AccBlock(hash, txdata) == [hash |-> hash, txdata |-> txdata]

\* The blocks offered at height h: a coinbase whose only output is an
\* OP_RETURN; one with a spendable output; a block with a second
\* transaction, one of whose outputs a third transaction spends; and, at
\* its height, a historic block whose coinbase output is a BIP30 leaf.
AccBlocks(h) ==
    LET cb == 3 * h + 1
    IN  {AccBlock(10 * h + 1, <<AccTx(cb, <<NullOutPoint>>, <<"op_return">>)>>),
         AccBlock(10 * h + 2, <<AccTx(cb, <<NullOutPoint>>, <<"spendable", "op_return">>)>>),
         AccBlock(10 * h + 3, <<AccTx(cb, <<NullOutPoint>>, <<"spendable">>),
                                AccTx(cb + 1, <<UtxoA>>, <<"spendable", "spendable">>),
                                AccTx(cb + 2, <<OutPoint(cb + 1, 0)>>, <<"op_return">>)>>)}
        \cup {AccBlock(10 * h + 4, <<AccTx(txid, <<NullOutPoint>>, <<"spendable">>)>>) :
                  txid \in IF h = 0 THEN {Txid91722} ELSE IF h = 1 THEN {Txid91812} ELSE {}}

\* the nodes of the tree with root hash h at position pos
RECURSIVE TreeNodes(_, _, _)
TreeNodes(h, pos, rows) ==
    IF Len(h) # 2 THEN <<[pos |-> pos, hash |-> h]>>
    ELSE <<[pos |-> pos, hash |-> h]>>
         \o TreeNodes(h[1], left_child(pos, rows), rows)
         \o TreeNodes(h[2], left_child(pos, rows) + 1, rows)

\* the rows that hold a root, the highest first, as the roots are kept
RootRows(leaves_n) ==
    LET rows == tree_rows(leaves_n)
        has == SelectSeq([i \in 1..(rows + 1) |-> rows + 1 - i],
                         LAMBDA r : HasRoot(leaves_n, r))
    IN  has

RECURSIVE ForestNodes(_, _)
ForestNodes(stump, i) ==
    IF i > Len(stump.roots) THEN <<>>
    ELSE TreeNodes(stump.roots[i],
                   root_position(stump.leaves, RootRows(stump.leaves)[i],
                                 tree_rows(stump.leaves)),
                   tree_rows(stump.leaves))
         \o ForestNodes(stump, i + 1)

\* the leaves the stump commits to, with their positions
LiveLeaves(stump) ==
    SelectSeq(ForestNodes(stump, 1), LAMBDA n : Len(n.hash) = 32)

HashAt(stump, pos) ==
    LET at == SelectSeq(ForestNodes(stump, 1), LAMBDA n : n.pos = pos)
    IN  IF at = <<>> THEN Empty ELSE at[1].hash

\* the sibling hashes a proof of the (sorted) positions holds
RECURSIVE ProofHashes(_, _)
ProofHashes(stump, queue) ==
    IF queue = <<>> THEN <<>>
    ELSE LET rows == tree_rows(stump.leaves)
             p == Head(queue).pos
             rest == Tail(queue)
             sibling == IF p % 2 = 0 THEN p + 1 ELSE p - 1
             paired == rest # <<>> /\ Head(rest).pos = sibling
             up == [pos |-> parent(p, rows)]
         IN  IF is_root_position(p, stump.leaves, rows) THEN ProofHashes(stump, rest)
             ELSE IF p >= RowStart(rows, rows) THEN <<>>
             ELSE IF paired THEN ProofHashes(stump, InsertNode(up, Tail(rest)))
             ELSE <<HashAt(stump, sibling)>> \o ProofHashes(stump, InsertNode(up, rest))

\* the proof an honest peer gives for the leaves at the positions of targets
Prove(stump, targets) ==
    [targets |-> targets,
     hashes |-> ProofHashes(stump, SortNodes([i \in 1..Len(targets) |-> [pos |-> targets[i]]]))]

\* What peers ask to delete: up to MaxDel leaves of the stump with their
\* proof, in any order; the same with the proof cut short; the deletion of
\* the block connected last once more, alone or with a BIP30 hash; a leaf
\* of the stump named twice; a BIP30 hash beside a leaf; a BIP30 hash that
\* is not in the stump; and a leaf deleted by the block connected last, at
\* each position of the forest with the hashes a proof of that position
\* holds.
Deletions(stump) ==
    LET live == LiveLeaves(stump)
        picks == {s \in SeqsUpTo(1..Len(live), MaxDel) :
                      \A i, j \in 1..Len(s) : i # j => s[i] # s[j]}
        honest(s) == [del_hashes |-> [i \in 1..Len(s) |-> live[s[i]].hash],
                      proof |-> Prove(stump, [i \in 1..Len(s) |-> live[s[i]].pos])]
        short(d) == [del_hashes |-> d.del_hashes,
                     proof |-> [targets |-> d.proof.targets,
                                hashes |-> SubSeq(d.proof.hashes, 1, Len(d.proof.hashes) - 1)]]
        with(d, hash, pos) ==
                    [del_hashes |-> Append(d.del_hashes, hash),
                     proof |-> [targets |-> Append(d.proof.targets, pos),
                                hashes |-> d.proof.hashes]]
        none == [del_hashes |-> <<>>, proof |-> EmptyProof]
    IN  {honest(s) : s \in picks}
        \cup {short(honest(s)) : s \in {x \in picks : honest(x).proof.hashes # <<>>}}
        \cup {last, with(last, UNSPENDABLE_BIP30_UTXO_91722, 0)}
        \cup {with(honest(s), live[s[1]].hash, live[s[1]].pos) : s \in {x \in picks : Len(x) = 1}}
        \cup {with(honest(s), UNSPENDABLE_BIP30_UTXO_91812, 0) : s \in {x \in picks : Len(x) = 1}}
        \cup {with(none, UNSPENDABLE_BIP30_UTXO_91722, 0)}
        \cup {[del_hashes |-> <<last.del_hashes[1]>>, proof |-> Prove(stump, <<pos>>)] :
                  pos \in {x \in 0..RowStart(tree_rows(stump.leaves), tree_rows(stump.leaves)) :
                              last.del_hashes # <<>>}}

CallUpdateAcc ==
    /\ op = "none"
    /\ \E block \in AccBlocks(validation_height), d \in Deletions(acc) :
        LET result == update_acc(acc, block, validation_height, d.proof, d.del_hashes)
        IN  /\ op' = "update_acc"
            /\ args' = [acc |-> acc, block |-> block, height |-> validation_height,
                        proof |-> d.proof, del_hashes |-> d.del_hashes]
            /\ ret' = result
            /\ acc' = StumpOfCaller(acc, result)
            /\ UNCHANGED <<build, validation_height, last, best_block, banned, store_vars, node_vars>>

\* connect_block: the chain state takes the stump update_acc returned
Connect ==
    /\ op = "update_acc"
    /\ ret.res = Ok
    /\ validation_height < MaxHeight
    /\ acc' = ret.acc
    /\ validation_height' = validation_height + 1
    /\ last' = [del_hashes |-> args.del_hashes, proof |-> args.proof]
    /\ op' = "none"
    /\ args' = <<>>
    /\ ret' = <<>>
    /\ UNCHANGED <<build, best_block, banned, store_vars, node_vars>>

NextAcc ==
    \/ CallUpdateAcc
    \/ Connect
    \/ Return

SpecAcc == Init /\ [][NextAcc]_vars

-----------------------------------------------------------------------------
(* The chain state at work: headers extend the tip and blocks are          *)
(* connected behind it, on signet.                                         *)

SignetChain == [subsidy_halving_interval |-> NatOf(210000), bip34_height |-> NatOf(1)]

ChainTx(txid, script_sig, ops, outs) ==
    [txid |-> txid,
     input |-> [i \in 1..Len(ops) |-> [previous_output |-> ops[i], script_sig |-> script_sig]],
     output |-> outs, script_ok |-> TRUE]

\* the block of the best chain at a height: its coinbase pushes the height
\* and pays the subsidy to a spendable output beside an OP_RETURN output
HonestBlock(height) ==
    [hash |-> HeaderHash(height), root_matches |-> TRUE, commitment_ok |-> TRUE,
     weight |-> 1000,
     txdata |-> <<ChainTx(2000 + height, <<80 + height, 0>>, <<NullOutPoint>>,
                          <<[value |-> Subsidy50, script_pubkey |-> "spendable"],
                            [value |-> <<>>, script_pubkey |-> "op_return"]>>)>>]

\* The blocks offered for a height: the honest one, and the same with
\* transactions that are not those of the header's Merkle root, a wrong
\* witness commitment, too much weight, no transaction, a coinbase that
\* claims too much, a coinbase that pushes another height, and a second
\* transaction that spends an unknown output.
OfferedBlocks(height) ==
    LET b == HonestBlock(height)
    IN  {b,
         [b EXCEPT !.root_matches = FALSE],
         [b EXCEPT !.commitment_ok = FALSE],
         [b EXCEPT !.weight = MAX_BLOCK_WEIGHT + 1],
         [b EXCEPT !.txdata = <<>>],
         [b EXCEPT !.txdata[1].output[1].value = Add(Subsidy50, <<1>>)],
         [b EXCEPT !.txdata[1].input[1].script_sig = <<81 + height, 0>>],
         [b EXCEPT !.txdata = @ \o <<ChainTx(3000 + height, <<>>, <<UtxoZ>>,
                                      <<[value |-> <<1>>, script_pubkey |-> "spendable"]>>)>>]}

\* a header arrives: one that extends the tip, or one that does not
AcceptHeader(limit) ==
    /\ best_block.height < limit
    /\ \E prev_hash \in {best_block.hash, HeaderHash(limit + 1)} :
        LET header == [prev_hash |-> prev_hash, hash |-> HeaderHash(best_block.height + 1)]
        IN  /\ best_block' = accept_header(best_block, header)
            /\ op' = "accept_header"
            /\ args' = header
            /\ ret' = [res |-> IF prev_hash = best_block.hash THEN Ok ELSE "BadPrevHash"]
    /\ UNCHANGED <<build, acc, validation_height, last, banned, store_vars, node_vars>>

\* a block arrives for the height after the last one connected, with the
\* hashes it deletes and their proof
ConnectBlock ==
    /\ validation_height < best_block.height
    /\ \E block \in OfferedBlocks(validation_height + 1), d \in Deletions(acc) :
        \E result \in {connect_block(build, SignetChain,
                                     [acc |-> acc, validation_height |-> validation_height],
                                     block, <<>>, d.proof, d.del_hashes)} :
            /\ op' = "connect_block"
            /\ args' = [chain |-> [acc |-> acc, validation_height |-> validation_height],
                        block |-> block, proof |-> d.proof, del_hashes |-> d.del_hashes]
            /\ ret' = [res |-> result.res]
            /\ acc' = result.acc
            /\ validation_height' = result.validation_height
            /\ last' = IF result.res = Ok
                       THEN [del_hashes |-> d.del_hashes, proof |-> d.proof]
                       ELSE last
    /\ UNCHANGED <<build, best_block, banned, store_vars, node_vars>>

NextChain ==
    \/ AcceptHeader(MaxHeight)
    \/ ConnectBlock

SpecChain == Init /\ [][NextChain]_vars

-----------------------------------------------------------------------------
(* The sync of tests/sync_node.rs: the node downloads the headers of the   *)
(* first NUM_BLOCKS signet blocks, then asks its peers for the blocks, one *)
(* height after the other.  A peer whose block fails validation is banned  *)
(* and the block is asked from another peer.                               *)

\* const NUM_BLOCKS: usize = 9
NUM_BLOCKS == 9

\* blocks.insert(headers[7].block_hash(), mutated_block_h7())
MUTATED_HEIGHT == 7

\* vec![PeerData::new(Vec::new(), blocks, HashMap::new()); 9]
NUM_MUTATED_PEERS == 9

\* the peers that serve the mutated block, and the one pushed after them
MutatedPeers == 1..NUM_MUTATED_PEERS
Peers == 1..(NUM_MUTATED_PEERS + 1)

\* mutated_block_h7(): the block of height 7 with another transaction list,
\* which is not the one the Merkle root of its header commits to
MutatedBlockH7 ==
    [HonestBlock(MUTATED_HEIGHT) EXCEPT !.root_matches = FALSE,
                                        !.txdata[1].txid = 2900 + MUTATED_HEIGHT]

\* the block a peer serves for a height
PeerBlock(peer, height) ==
    IF peer \in MutatedPeers /\ height = MUTATED_HEIGHT
    THEN MutatedBlockH7
    ELSE HonestBlock(height)

\* The node asks a peer that is not banned for the block after the last one
\* connected and connects what the peer serves; the first blocks of signet
\* spend nothing.  A peer whose block is refused is banned.
SyncBlock ==
    /\ validation_height < best_block.height
    /\ \E block \in {PeerBlock(p, validation_height + 1) : p \in Peers \ banned} :
        \E result \in {connect_block(build, SignetChain,
                                     [acc |-> acc, validation_height |-> validation_height],
                                     block, <<>>, EmptyProof, <<>>)} :
            /\ op' = "sync_block"
            /\ args' = [block |-> block, height |-> validation_height + 1]
            /\ ret' = [res |-> result.res]
            /\ acc' = result.acc
            /\ validation_height' = result.validation_height
            /\ last' = IF result.res = Ok
                       THEN [del_hashes |-> <<>>, proof |-> EmptyProof]
                       ELSE last
            /\ \E peer \in {p \in Peers \ banned :
                               PeerBlock(p, validation_height + 1) = block} :
                   banned' = IF result.res = Ok THEN banned ELSE banned \cup {peer}
    /\ UNCHANGED <<build, best_block, store_vars, node_vars>>

NextSync ==
    \/ AcceptHeader(NUM_BLOCKS)
    \/ SyncBlock

SpecSync == Init /\ [][NextSync]_vars

\* SyncBlock can take a step exactly when a block is outstanding and a peer
\* is left to ask: the step bans the peer or advances the validation height
SyncBlockEnabled ==
    /\ validation_height < best_block.height
    /\ Peers \ banned # {}

\* The node keeps running: a header that can be taken is taken, and a block
\* that is outstanding is asked for.  The second conjunct is the weak
\* fairness of SyncBlock, WF_vars(SyncBlock), with ENABLED <<SyncBlock>>_vars
\* written out as SyncBlockEnabled.
SpecSyncFair ==
    /\ SpecSync
    /\ WF_vars(AcceptHeader(NUM_BLOCKS))
    /\ ([]<>~SyncBlockEnabled \/ []<><<SyncBlock>>_vars)

-----------------------------------------------------------------------------
(* kv_chainstore.rs: KvChainStore.  db holds the committed rows of the     *)
(* four tables, each a function from keys to byte strings; a cache is the  *)
(* sequence of its entries [key, value], the most recently used first.  A  *)
(* BlockHash is a number, standing for its bytes; a DiskBlockHeader is     *)
(* [tag, header, height], header being the content of the block header.    *)

\* the entries a cache holds at most (HEADER_CACHE_CAPACITY and
\* INDEX_CACHE_CAPACITY are 64_000)
MaxCached == 2

\* the variants of DiskBlockHeader written to the store, by their tag byte
Tags == <<"FullyValid", "HeadersOnly">>

\* DiskBlockHeader::block_hash: the hash of the block header alone
block_hash(header) == 100 + header.header

\* serialize(&hash): the bytes of the hash, two in the model
serialize_BlockHash(hash) == <<hash % 256, hash \div 256>>

\* deserialize::<BlockHash>(bytes)
deserialize_BlockHash(bytes) ==
    IF Len(bytes) # 2 THEN [res |-> "Err"]
    ELSE [res |-> Ok, val |-> bytes[1] + 256 * bytes[2]]

\* serialize(&header_copy): the tag, the block header, the height as a u32
serialize_DiskBlockHeader(header) ==
    <<CHOOSE t \in 1..Len(Tags) : Tags[t] = header.tag, header.header,
      header.height % 256, (header.height \div 256) % 256,
      (header.height \div 65536) % 256, header.height \div 16777216>>

\* deserialize::<DiskBlockHeader>(bytes)
deserialize_DiskBlockHeader(bytes) ==
    IF Len(bytes) # 6 \/ bytes[1] \notin 1..Len(Tags) THEN [res |-> "Err"]
    ELSE [res |-> Ok,
          val |-> [tag |-> Tags[bytes[1]], header |-> bytes[2],
                   height |-> bytes[3] + 256 * bytes[4] + 65536 * bytes[5]
                              + 16777216 * bytes[6]]]

\* table.get(key) and table.insert(key, value) followed by commit
TableGet(table, key) == IF key \in DOMAIN table THEN Some(table[key]) ELSE None
TableInsert(table, key, value) ==
    [k \in DOMAIN table \cup {key} |-> IF k = key THEN value ELSE table[k]]

\* LruCache::get: the value of the key, which becomes the most recently used
LruGet(cache, key) ==
    LET IsKey(e) == e.key = key
        NotKey(e) == e.key # key
        found == SelectSeq(cache, IsKey)
    IN  IF found = <<>> THEN [hit |-> FALSE, cache |-> cache]
        ELSE [hit |-> TRUE, val |-> found[1].value,
              cache |-> found \o SelectSeq(cache, NotKey)]

LruPut_keeps_value(cache, key, value) ==
    LET IsKey(e) == e.key = key
        NotKey(e) == e.key # key
        others == SelectSeq(cache, NotKey)
        found == SelectSeq(cache, IsKey)
    IN  (IF found = <<>> THEN <<[key |-> key, value |-> value]>> ELSE found)
        \o SubSeq(others, 1, MinOf(Len(others), MaxCached - 1))

\* LruCache::put: the entry becomes the most recently used; when the key is
\* new and the cache is full, the least recently used entry is dropped
LruPut(cache, key, value) ==
    LET NotKey(e) == e.key # key
        others == SelectSeq(cache, NotKey)
    IN  <<[key |-> key, value |-> value]>>
        \o SubSeq(others, 1, MinOf(Len(others), MaxCached - 1))

\* KvChainStore::get_header on the store [db, header_cache, index_cache];
\* read_fails: begin_read, open_table or get returns an error
get_header(store, hash, read_fails) ==
    LET cached == LruGet(store.header_cache, hash)
        entry  == TableGet(store.db.headers, serialize_BlockHash(hash))
    IN  IF cached.hit
        THEN [res |-> Ok, val |-> Some(cached.val),
              store |-> [store EXCEPT !.header_cache = cached.cache]]
        ELSE IF read_fails THEN [res |-> "Err", store |-> store]
        ELSE IF entry = None THEN [res |-> Ok, val |-> None, store |-> store]
        ELSE IF deserialize_DiskBlockHeader(entry.val).res # Ok
        THEN [res |-> Ok, val |-> None, store |-> store]
        ELSE [res |-> Ok, val |-> Some(deserialize_DiskBlockHeader(entry.val).val),
              store |-> [store EXCEPT !.header_cache =
                            LruPut(@, hash, deserialize_DiskBlockHeader(entry.val).val)]]

\* KvChainStore::get_block_hash
get_block_hash(store, height, read_fails) ==
    LET cached == LruGet(store.index_cache, height)
        entry  == TableGet(store.db.index, height)
    IN  IF cached.hit
        THEN [res |-> Ok, val |-> Some(cached.val),
              store |-> [store EXCEPT !.index_cache = cached.cache]]
        ELSE IF read_fails THEN [res |-> "Err", store |-> store]
        ELSE IF entry = None THEN [res |-> Ok, val |-> None, store |-> store]
        ELSE IF deserialize_BlockHash(entry.val).res # Ok
        THEN [res |-> Ok, val |-> None, store |-> store]
        ELSE [res |-> Ok, val |-> Some(deserialize_BlockHash(entry.val).val),
              store |-> [store EXCEPT !.index_cache =
                            LruPut(@, height, deserialize_BlockHash(entry.val).val)]]

\* KvChainStore::get_header_by_height
get_header_by_height(store, height, index_fails, header_fails) ==
    LET found == get_block_hash(store, height, index_fails)
    IN  IF found.res # Ok THEN found
        ELSE IF found.val = None THEN found
        ELSE get_header(found.store, found.val.val, header_fails)

\* KvChainStore::save_header; write_fails: begin_write, open_table, insert
\* or commit returns an error, and nothing is committed
save_header(store, header, write_fails) ==
    LET hash   == block_hash(header)
        cached == [store EXCEPT !.header_cache = LruPut(@, hash, header)]
    IN  IF write_fails THEN [res |-> "Err", store |-> cached]
        ELSE [res |-> Ok,
              store |-> [cached EXCEPT !.db.headers =
                            TableInsert(@, serialize_BlockHash(hash),
                                        serialize_DiskBlockHeader(header))]]

\* KvChainStore::update_block_index
update_block_index(store, height, hash, write_fails) ==
    LET cached == [store EXCEPT !.index_cache = LruPut(@, height, hash)]
    IN  IF write_fails THEN [res |-> "Err", store |-> cached]
        ELSE [res |-> Ok,
              store |-> [cached EXCEPT !.db.index =
                            TableInsert(@, height, serialize_BlockHash(hash))]]

\* the headers given to the store: a header saved before and after its
\* block is validated, and the header after it
StoreHeaders ==
    {[tag |-> "HeadersOnly", header |-> 1, height |-> 1],
     [tag |-> "FullyValid", header |-> 1, height |-> 1],
     [tag |-> "HeadersOnly", header |-> 2, height |-> 2]}
StoreHashes == {block_hash(h) : h \in StoreHeaders}
StoreHeights == {1, 2}

\* the index entries given to the store: every header at its height, and
\* the second header at the height of the first as well
StoreIndex ==
    {[height |-> h.height, hash |-> block_hash(h)] : h \in StoreHeaders}
    \cup {[height |-> 1, hash |-> block_hash(h)] : h \in StoreHeaders}

TheStore == [db |-> db, header_cache |-> header_cache, index_cache |-> index_cache]

\* the writes that returned Ok, after a call: a write that returned Ok is
\* the latest of its key, and flushed tells whether flush returned Ok since
\* the last of them
Acked(name, call_args, result) ==
    IF result.res # Ok THEN acked
    ELSE CASE name = "save_header" ->
                [acked EXCEPT !.headers = TableInsert(@, block_hash(call_args.header),
                                                      call_args.header),
                              !.flushed = FALSE]
           [] name = "update_block_index" ->
                [acked EXCEPT !.index = TableInsert(@, call_args.height, call_args.hash),
                              !.flushed = FALSE]
           [] name = "save_height" ->
                [acked EXCEPT !.height = Some(call_args.height), !.flushed = FALSE]
           [] name = "save_roots_for_block" ->
                [acked EXCEPT !.roots = TableInsert(@, call_args.height, call_args.roots),
                              !.flushed = FALSE]
           [] name = "flush" -> [acked EXCEPT !.flushed = TRUE]
           [] OTHER -> acked

\* a call on the store: its result is returned and the store is what the
\* call left
StoreCall(name, call_args, result) ==
    /\ op' = name
    /\ args' = call_args
    /\ ret' = IF result.res = Ok /\ "val" \in DOMAIN result
              THEN [res |-> Ok, val |-> result.val]
              ELSE [res |-> result.res]
    /\ db' = result.store.db
    /\ header_cache' = result.store.header_cache
    /\ index_cache' = result.store.index_cache
    /\ acked' = Acked(name, call_args, result)
    /\ UNCHANGED <<build, chain_vars, node_vars>>

SaveHeader ==
    \E header \in StoreHeaders, write_fails \in BOOLEAN :
        StoreCall("save_header", [header |-> header],
                  save_header(TheStore, header, write_fails))

UpdateBlockIndex ==
    \E entry \in StoreIndex, write_fails \in BOOLEAN :
        StoreCall("update_block_index", entry,
                  update_block_index(TheStore, entry.height, entry.hash, write_fails))

GetHeader ==
    \E hash \in StoreHashes, read_fails \in BOOLEAN :
        StoreCall("get_header", [block_hash |-> hash],
                  get_header(TheStore, hash, read_fails))

GetBlockHash ==
    \E height \in StoreHeights, read_fails \in BOOLEAN :
        StoreCall("get_block_hash", [height |-> height],
                  get_block_hash(TheStore, height, read_fails))

GetHeaderByHeight ==
    \E height \in StoreHeights, index_fails \in BOOLEAN, header_fails \in BOOLEAN :
        StoreCall("get_header_by_height", [height |-> height],
                  get_header_by_height(TheStore, height, index_fails, header_fails))

NextStore ==
    \/ SaveHeader
    \/ UpdateBlockIndex
    \/ GetHeader
    \/ GetBlockHash
    \/ GetHeaderByHeight

SpecStore == Init /\ [][NextStore]_vars

-----------------------------------------------------------------------------
(* kv_chainstore.rs: the accumulator snapshots, the tip marker, flush, and *)
(* a crash followed by a restart.  A committed row outlives a crash (redb   *)
(* commits durably); the caches do not.                                     *)

\* the decimal digits of n, as format! writes them
Decimal(n) ==
    LET k == CHOOSE d \in 1..10 : n < 10 ^ d /\ (d > 1 => 10 ^ (d - 1) <= n)
    IN  [i \in 1..k |-> (n \div (10 ^ (k - i))) % 10]

roots_key_without_height(height) == <<"roots_">>

\* format!("roots_{height}")
roots_key(height) == <<"roots_">> \o Decimal(height)

\* KvChainStore::load_roots_for_block
load_roots_for_block(store, height, read_fails) ==
    IF read_fails THEN [res |-> "Err", store |-> store]
    ELSE [res |-> Ok, val |-> TableGet(store.db.roots, roots_key(height)),
          store |-> store]

save_roots_for_block_unchecked(store, roots, height, write_fails) ==
    [res |-> Ok,
     store |-> IF write_fails THEN store
               ELSE [store EXCEPT !.db.roots = TableInsert(@, roots_key(height), roots)]]

\* KvChainStore::save_roots_for_block
save_roots_for_block(store, roots, height, write_fails) ==
    IF write_fails THEN [res |-> "Err", store |-> store]
    ELSE [res |-> Ok,
          store |-> [store EXCEPT !.db.roots = TableInsert(@, roots_key(height), roots)]]

\* serialize(height) of a BestChain [best_block, depth]: the hash, then the
\* depth as a u32
serialize_BestChain(best) ==
    serialize_BlockHash(best.best_block)
        \o <<best.depth % 256, (best.depth \div 256) % 256,
             (best.depth \div 65536) % 256, best.depth \div 16777216>>

\* deserialize(bytes) into a BestChain
deserialize_BestChain(bytes) ==
    IF Len(bytes) # 6 THEN [res |-> "Err"]
    ELSE [res |-> Ok,
          val |-> [best_block |-> deserialize_BlockHash(SubSeq(bytes, 1, 2)).val,
                   depth |-> bytes[3] + 256 * bytes[4] + 65536 * bytes[5]
                             + 16777216 * bytes[6]]]

\* KvChainStore::load_height
load_height(store, read_fails) ==
    LET entry == TableGet(store.db.meta, "height")
    IN  IF read_fails THEN [res |-> "Err", store |-> store]
        ELSE IF entry = None THEN [res |-> Ok, val |-> None, store |-> store]
        ELSE IF deserialize_BestChain(entry.val).res # Ok
        THEN [res |-> Panic, store |-> store]
        ELSE [res |-> Ok, val |-> Some(deserialize_BestChain(entry.val).val),
              store |-> store]

\* KvChainStore::save_height
save_height(store, height, write_fails) ==
    IF write_fails THEN [res |-> "Err", store |-> store]
    ELSE [res |-> Ok,
          store |-> [store EXCEPT !.db.meta =
                        TableInsert(@, "height", serialize_BestChain(height))]]

\* KvChainStore::flush
flush(store) == [res |-> Ok, store |-> store]

\* the process dies and KvChainStore::new opens the database again: the
\* committed rows are there and the caches are empty
new(store) ==
    [res |-> Ok, store |-> [db |-> store.db, header_cache |-> <<>>, index_cache |-> <<>>]]

\* what the calls are made with: a header before and after validation, the
\* hashes indexed at height 1, two heights whose keys share a prefix, two
\* snapshots and two tip markers
KvHeaders == {h \in StoreHeaders : h.height = 1}
KvIndex == {e \in StoreIndex : e.height = 1}
RootHeights == {1, 10}
RootBytes == {<<1>>, <<2, 0>>}
BestChains == {[best_block |-> block_hash(h), depth |-> h.height] : h \in StoreHeaders}

KvSaveHeader ==
    \E header \in KvHeaders, write_fails \in BOOLEAN :
        StoreCall("save_header", [header |-> header],
                  save_header(TheStore, header, write_fails))

KvUpdateBlockIndex ==
    \E entry \in KvIndex, write_fails \in BOOLEAN :
        StoreCall("update_block_index", entry,
                  update_block_index(TheStore, entry.height, entry.hash, write_fails))

SaveRootsForBlock ==
    \E roots \in RootBytes, height \in RootHeights, write_fails \in BOOLEAN :
        StoreCall("save_roots_for_block", [roots |-> roots, height |-> height],
                  save_roots_for_block(TheStore, roots, height, write_fails))

LoadRootsForBlock ==
    \E height \in RootHeights, read_fails \in BOOLEAN :
        StoreCall("load_roots_for_block", [height |-> height],
                  load_roots_for_block(TheStore, height, read_fails))

SaveHeight ==
    \E height \in BestChains, write_fails \in BOOLEAN :
        StoreCall("save_height", [height |-> height],
                  save_height(TheStore, height, write_fails))

LoadHeight ==
    \E read_fails \in BOOLEAN :
        StoreCall("load_height", <<>>, load_height(TheStore, read_fails))

Flush == StoreCall("flush", <<>>, flush(TheStore))

Restart == StoreCall("new", <<>>, new(TheStore))

NextKv ==
    \/ KvSaveHeader
    \/ KvUpdateBlockIndex
    \/ SaveRootsForBlock
    \/ LoadRootsForBlock
    \/ SaveHeight
    \/ LoadHeight
    \/ Flush
    \/ Restart

SpecKv == Init /\ [][NextKv]_vars

-----------------------------------------------------------------------------
(* kv_chainstore.rs: the header and index calls when every read and write  *)
(* of the database succeeds, on more keys than a cache holds.               *)

OkHeaders == StoreHeaders \cup {[tag |-> "HeadersOnly", header |-> 3, height |-> 3]}
OkHashes == {block_hash(h) : h \in OkHeaders}
OkHeights == {h.height : h \in OkHeaders}
OkIndex ==
    {[height |-> h.height, hash |-> block_hash(h)] : h \in OkHeaders}
    \cup {[height |-> 1, hash |-> block_hash(h)] : h \in {x \in OkHeaders : x.height = 2}}

OkSaveHeader ==
    \E header \in OkHeaders :
        StoreCall("save_header", [header |-> header],
                  save_header(TheStore, header, FALSE))

OkUpdateBlockIndex ==
    \E entry \in OkIndex :
        StoreCall("update_block_index", entry,
                  update_block_index(TheStore, entry.height, entry.hash, FALSE))

OkGetHeader ==
    \E hash \in OkHashes :
        StoreCall("get_header", [block_hash |-> hash],
                  get_header(TheStore, hash, FALSE))

OkGetBlockHash ==
    \E height \in OkHeights :
        StoreCall("get_block_hash", [height |-> height],
                  get_block_hash(TheStore, height, FALSE))

OkGetHeaderByHeight ==
    \E height \in OkHeights :
        StoreCall("get_header_by_height", [height |-> height],
                  get_header_by_height(TheStore, height, FALSE, FALSE))

NextStoreOk ==
    \/ OkSaveHeader
    \/ OkUpdateBlockIndex
    \/ OkGetHeader
    \/ OkGetBlockHash
    \/ OkGetHeaderByHeight

SpecStoreOk == Init /\ [][NextStoreOk]_vars

-----------------------------------------------------------------------------
(* florestad.rs: what Florestad derives from its Config.  A network is the *)
(* name of its variant of bitcoin::Network.                                 *)

Networks == {"Bitcoin", "Testnet", "Testnet4", "Signet", "Regtest"}

\* Florestad::get_default_electrum_port
get_default_electrum_port(network, enable_electrum_tls) ==
    LET electrum_port == CASE network = "Bitcoin"  -> 50001
                           [] network = "Signet"   -> 60001
                           [] network = "Testnet4" -> 40001
                           [] network = "Testnet"  -> 30001
                           [] network = "Regtest"  -> 20001
                           [] OTHER                -> 50001
    IN  IF enable_electrum_tls THEN electrum_port + 1 ELSE electrum_port

\* a call of a function of Florestad that reads the configuration only
ConfigCall(name, call_args, result) ==
    /\ op = "none"
    /\ op' = name
    /\ args' = call_args
    /\ ret' = result
    /\ UNCHANGED <<build, chain_vars, store_vars, node_vars>>

CallGetDefaultElectrumPort ==
    \E network \in Networks, enable_electrum_tls \in BOOLEAN :
        ConfigCall("get_default_electrum_port",
                   [network |-> network, enable_electrum_tls |-> enable_electrum_tls],
                   get_default_electrum_port(network, enable_electrum_tls))

\* ChainParams::get_assume_utreexo(network): the assume-utreexo value built
\* into the binary for the network, written as the name of its source
BuiltinAssumeUtreexo(network) == [source |-> "builtin", network |-> network]

\* the values of Config::assumeutreexo_value: none, or one given by the user
AssumeUtreexoValues == {None, Some([source |-> "config", network |-> "any"])}

\* Option::or
OptionOr(a, b) == IF a.some THEN a ELSE b

\* Florestad::start, the fields pow_fraud_proofs and assume_utreexo of the
\* UtreexoNodeConfig it builds from config = [network, assume_utreexo,
\* assumeutreexo_value]
UtreexoNodeConfig(config) ==
    LET pow_fraud_proofs == config.network = "Signet"
        assume_utreexo ==
            IF ~pow_fraud_proofs /\ config.assume_utreexo
            THEN Some(BuiltinAssumeUtreexo(config.network))
            ELSE None
    IN  [network |-> config.network,
         pow_fraud_proofs |-> pow_fraud_proofs,
         assume_utreexo |-> OptionOr(config.assumeutreexo_value, assume_utreexo)]

CallStart ==
    \E network \in Networks, assume_utreexo \in BOOLEAN,
       assumeutreexo_value \in AssumeUtreexoValues :
        LET config == [network |-> network, assume_utreexo |-> assume_utreexo,
                       assumeutreexo_value |-> assumeutreexo_value]
        IN  ConfigCall("start", config, UtreexoNodeConfig(config))

\* A path is the sequence of its pieces: a separator character, "/" or
\* "\", or a run of other characters.
Separators == {"/", "\\"}

trim_end_matches_once(s) ==
    IF s # <<>> /\ s[Len(s)] \in Separators THEN SubSeq(s, 1, Len(s) - 1) ELSE s

\* str::trim_end_matches(['/', '\\'])
trim_end_matches(s) ==
    LET kept == {i \in 1..Len(s) : s[i] \notin Separators}
    IN  IF kept = {} THEN <<>> ELSE SubSeq(s, 1, SetMax(kept))

\* PathBuf::push of a relative component, on Unix: a "/" is put between
\* unless the path is empty or ends with one
PathPush(base, component) ==
    IF base = <<>> \/ base[Len(base)] = "/"
    THEN Append(base, component)
    ELSE base \o <<"/", component>>

\* Florestad::data_dir_path for config = [data_dir, network], home being
\* what dirs::home_dir() returns
data_dir_path(config, home) ==
    LET base == IF config.data_dir.some
                THEN trim_end_matches(config.data_dir.val)
                ELSE PathPush(IF home.some THEN home.val ELSE <<".">>, ".floresta")
    IN  CASE config.network = "Bitcoin"  -> base
          [] config.network = "Signet"   -> PathPush(base, "signet")
          [] config.network = "Testnet"  -> PathPush(base, "testnet3")
          [] config.network = "Testnet4" -> PathPush(base, "testnet4")
          [] config.network = "Regtest"  -> PathPush(base, "regtest")

\* data directories of a Config: none; the ones of test_data_dir_path; one
\* with a separator inside only, ones ending with both separators, and ones
\* made of separators only
DataDirs ==
    {None,
     Some(<<"path", "/", "to", "/", "dir">>),
     Some(<<"path", "/", "to", "/", "dir", "/">>),
     Some(<<"path", "\\">>),
     Some(<<"path", "/", "/", "/">>),
     Some(<<"path">>),
     Some(<<"/", "path", "/", "\\", "/">>),
     Some(<<"path", "\\", "dir", "\\", "\\">>),
     Some(<<"/">>),
     Some(<<"\\", "/">>),
     Some(<<>>)}

\* what dirs::home_dir() finds: nothing, a home directory, the root
HomeDirs == {None, Some(<<"/", "home", "/", "user">>), Some(<<"/">>)}

CallDataDirPath ==
    \E data_dir \in DataDirs, network \in Networks, home \in HomeDirs :
        ConfigCall("data_dir_path",
                   [config |-> [data_dir |-> data_dir, network |-> network],
                    home |-> home],
                   data_dir_path([data_dir |-> data_dir, network |-> network], home))

NextConfig ==
    \/ CallGetDefaultElectrumPort
    \/ CallStart
    \/ CallDataDirPath

SpecConfig == Init /\ [][NextConfig]_vars

-----------------------------------------------------------------------------
(* florestad.rs, control.rs: the shutdown of the daemon.  The callers are  *)
(* tasks that run interleaved: one calls Florestad::stop, one the RPC stop, *)
(* one should_stop, two wait_shutdown.  start is called once; a start that  *)
(* returns early, before the channel is made, leaves everything as it was.  *)

Stoppers == {"stop", "rpc"}
Waiters == {"wait1", "wait2"}

stop_toggles(signal) == ~signal

\* Florestad::stop: `*stop_signal = true`, the flag after the call
stop(signal) == TRUE

\* RpcImpl::stop (control.rs): `*self.kill_signal.write().await = true`
rpc_stop(signal) == [kill_signal |-> TRUE, result |-> Some("Floresta stopping")]

\* Florestad::should_stop: `*stop_signal`
should_stop(signal) == signal

take_copies(guard) == [value |-> guard, guard |-> guard]

\* std::mem::take(&mut *guard): the value taken, and None left in its place
take(guard) == [value |-> guard, guard |-> None]

\* a step of a caller or task of the daemon
NodeStep == UNCHANGED <<build, op, args, ret, chain_vars, store_vars>>

\* stop_signal.write().await: the write lock is given when nobody holds the
\* lock
StopLock(p) ==
    /\ pc[p] = "idle"
    /\ rwlock = [writer |-> "none", readers |-> {}]
    /\ rwlock' = [rwlock EXCEPT !.writer = p]
    /\ pc' = [pc EXCEPT ![p] = "locked"]
    /\ UNCHANGED <<stop_signal, stop_notify, chan, provider, local>>
    /\ NodeStep

\* the flag is written, the guard is dropped and the call returns
StopWrite(p) ==
    /\ pc[p] = "locked"
    /\ stop_signal' = IF p = "stop" THEN stop(stop_signal)
                      ELSE rpc_stop(stop_signal).kill_signal
    /\ rwlock' = [rwlock EXCEPT !.writer = "none"]
    /\ local' = [local EXCEPT ![p] = IF p = "stop" THEN None
                                     ELSE rpc_stop(stop_signal).result]
    /\ pc' = [pc EXCEPT ![p] = "returned"]
    /\ UNCHANGED <<stop_notify, chan, provider>>
    /\ NodeStep

\* stop_signal.read().await: a read lock is given when no writer holds the
\* lock
ShouldStopLock ==
    /\ pc["should_stop"] = "idle"
    /\ rwlock.writer = "none"
    /\ rwlock' = [rwlock EXCEPT !.readers = @ \cup {"should_stop"}]
    /\ pc' = [pc EXCEPT !["should_stop"] = "locked"]
    /\ UNCHANGED <<stop_signal, stop_notify, chan, provider, local>>
    /\ NodeStep

ShouldStopReturn ==
    /\ pc["should_stop"] = "locked"
    /\ local' = [local EXCEPT !["should_stop"] = Some(should_stop(stop_signal))]
    /\ rwlock' = [rwlock EXCEPT !.readers = @ \ {"should_stop"}]
    /\ pc' = [pc EXCEPT !["should_stop"] = "returned"]
    /\ UNCHANGED <<stop_signal, stop_notify, chan, provider>>
    /\ NodeStep

\* the caller makes its call again
CallAgain(p) ==
    /\ pc[p] = "returned"
    /\ pc' = [pc EXCEPT ![p] = "idle"]
    /\ UNCHANGED <<stop_signal, rwlock, stop_notify, chan, provider, local>>
    /\ NodeStep

\* Florestad::start, from the creation of the shutdown channel on: the
\* receiver is stored and the chain provider is spawned with the sender
Start ==
    /\ provider = "none"
    /\ chan' = [sender |-> "held", taken |-> 0]
    /\ stop_notify' = Some("receiver")
    /\ provider' = "running"
    /\ UNCHANGED <<stop_signal, rwlock, pc, local>>
    /\ NodeStep

\* chain_provider.run(sender): the task polls the kill signal and, once it
\* is set, shuts the node down
ProviderPoll ==
    /\ provider = "running"
    /\ rwlock.writer = "none"
    /\ stop_signal
    /\ provider' = "stopping"
    /\ UNCHANGED <<stop_signal, rwlock, stop_notify, chan, pc, local>>
    /\ NodeStep

\* the task has shut down and sends on the channel
ProviderFinish ==
    /\ provider = "stopping"
    /\ provider' = "finished"
    /\ chan' = [chan EXCEPT !.sender = "sent"]
    /\ UNCHANGED <<stop_signal, rwlock, stop_notify, pc, local>>
    /\ NodeStep

\* the task ends without sending: the sender is dropped
ProviderAbort ==
    /\ provider \in {"running", "stopping"}
    /\ provider' = "aborted"
    /\ chan' = [chan EXCEPT !.sender = "dropped"]
    /\ UNCHANGED <<stop_signal, rwlock, stop_notify, pc, local>>
    /\ NodeStep

\* Florestad::wait_shutdown, the take of the receiver under the mutex
WaitTake(w) ==
    /\ pc[w] = "idle"
    /\ stop_notify' = take(stop_notify).guard
    /\ local' = [local EXCEPT ![w] = take(stop_notify).value]
    /\ IF take(stop_notify).value.some
       THEN /\ pc' = [pc EXCEPT ![w] = "awaiting"]
            /\ chan' = [chan EXCEPT !.taken = MinOf(@ + 1, 2)]
       ELSE /\ pc' = [pc EXCEPT ![w] = "returned"]
            /\ chan' = chan
    /\ UNCHANGED <<stop_signal, rwlock, provider>>
    /\ NodeStep

\* chan.await resolves once the sender has sent or was dropped
WaitResolve(w) ==
    /\ pc[w] = "awaiting"
    /\ chan.sender \in {"sent", "dropped"}
    /\ pc' = [pc EXCEPT ![w] = "returned"]
    /\ UNCHANGED <<stop_signal, rwlock, stop_notify, chan, provider, local>>
    /\ NodeStep

NextNode ==
    \/ \E p \in Stoppers : StopLock(p)
    \/ \E p \in Stoppers : StopWrite(p)
    \/ ShouldStopLock
    \/ ShouldStopReturn
    \/ \E p \in DOMAIN pc : CallAgain(p)
    \/ Start
    \/ ProviderPoll
    \/ ProviderFinish
    \/ ProviderAbort
    \/ \E w \in Waiters : WaitTake(w)
    \/ \E w \in Waiters : WaitResolve(w)

SpecNode == Init /\ [][NextNode]_vars

-----------------------------------------------------------------------------
(* What the claims speak of: the call made, and the verdict a validator    *)
(* computing every sum exactly gives.                                      *)

IsVerify == op = "verify_block_transactions"
IsValidate == op = "validate_block_no_acc"

CallTxs == IF IsValidate THEN args.block.txdata ELSE args.transactions
CallUtxos == IF IsValidate THEN args.inputs ELSE args.utxos
CallSubsidy ==
    IF IsValidate THEN get_subsidy(args.height, args.params.subsidy_halving_interval)
    ELSE args.subsidy

\* the first error among the transactions n.. and their exact total fee
RECURSIVE ExactFees(_, _, _, _, _)
ExactFees(height, utxos, txs, verify_script, n) ==
    IF n > Len(txs) THEN [err |-> Ok, fee |-> <<>>]
    ELSE LET v == verify_transaction(txs[n], utxos, height, verify_script)
         IN  IF v.err # Ok THEN [err |-> v.err, fee |-> <<>>]
             ELSE LET r == ExactFees(height, v.utxos, txs, verify_script, n + 1)
                  IN  [err |-> r.err, fee |-> Add(Sub(v.in_value, v.out_value), r.fee)]

CallFees == ExactFees(args.height, CallUtxos, CallTxs, args.verify_script, 2)

\* the exact sum of the coinbase's output values
CoinbaseTotal == SumNat(CallTxs[1].output)

\* the checks on the transactions, made in the order of the specification
\* with exact sums
ExactTxVerdict ==
    IF CallTxs = <<>> THEN "EmptyBlock"
    ELSE IF ~is_coinbase(CallTxs[1]) THEN "FirstTxIsNotCoinbase"
    ELSE IF verify_coinbase(CallTxs[1]) # Ok THEN verify_coinbase(CallTxs[1])
    ELSE IF CallFees.err # Ok THEN CallFees.err
    ELSE IF Lt(Add(CallSubsidy, CallFees.fee), CoinbaseTotal) THEN "BadCoinbaseOutValue"
    ELSE Ok

\* the integer the first push of the block's coinbase script_sig encodes:
\* [ok, neg, mag], ok being FALSE when there is none
CoinbaseHeight(block) ==
    IF block.txdata = <<>> \/ block.txdata[1].input = <<>> THEN [ok |-> FALSE]
    ELSE LET push == FirstInstruction(block.txdata[1].input[1].script_sig)
         IN  CASE push.kind = "push" -> read_scriptint(push.bytes)
               [] push.kind = "op" /\ push.opcode >= 81 /\ push.opcode <= 96 ->
                    [ok |-> TRUE, neg |-> FALSE, mag |-> push.opcode - 80]
               [] OTHER -> [ok |-> FALSE]

\* whether the coinbase encodes the integer height
EncodesHeight(block, height) ==
    LET h == CoinbaseHeight(block)
    IN  h.ok /\ ~h.neg /\ NatOf(h.mag) = height

\* the checks of validate_block_no_acc before the transactions are looked at
PassesMerkle == check_merkle_root(args.block)
PassesBip34 ==
    Lt(args.height, args.params.bip34_height) \/ EncodesHeight(args.block, args.height)
PassesWitness == check_witness_commitment(args.block)

ExactBlockVerdict ==
    IF ~PassesMerkle THEN "BadMerkleRoot"
    ELSE IF ~PassesBip34 THEN "BadBip34"
    ELSE IF ~PassesWitness THEN "BadWitnessCommitment"
    ELSE IF args.block.weight > 4000000 THEN "BlockTooBig"
    ELSE ExactTxVerdict

LogHas(name) == \E i \in 1..Len(ret.log) : ret.log[i].step = name

-----------------------------------------------------------------------------
(* The claims.                                                             *)

\* C1: verify_block_transactions (and so validate_block_no_acc, once its
\* own checks passed) returns BadCoinbaseOutValue exactly when no earlier
\* check fails and the sum of the coinbase's output values is greater than
\* the subsidy plus the total fee; a coinbase claiming that much or less is
\* accepted.
C1_BadCoinbaseOutValueExactly ==
    (IsVerify \/ (IsValidate /\ ExactBlockVerdict = ExactTxVerdict)) =>
        /\ ret.res = "BadCoinbaseOutValue" <=> ExactTxVerdict = "BadCoinbaseOutValue"
        /\ ExactTxVerdict = Ok => ret.res = Ok

\* C2: for every accepted block the coinbase output total is at most the
\* subsidy plus the fees, every sum being the exact one: none passes 2^64.
C2_AcceptedWithinExactSums ==
    ((IsVerify \/ IsValidate) /\ ret.res = Ok) =>
        /\ Le(CoinbaseTotal, Add(CallSubsidy, CallFees.fee))
        /\ ~Exceeds(CoinbaseTotal, 64)
        /\ ~Exceeds(Add(CallSubsidy, CallFees.fee), 64)

\* C3: get_subsidy(h) is 5_000_000_000 shifted right by the number of
\* halvings k = floor(h / interval), that is floor(5_000_000_000 / 2^k), and
\* 0 from 64 halvings on; with interval 210_000 it is 5_000_000_000 at 0 and
\* at 209_999, 2_500_000_000 at 210_000 and 0 at 13_440_000.
C3_SubsidySchedule ==
    op = "get_subsidy" =>
        LET h == args.height
            i == args.subsidy_halving_interval
            At(x, v) == (h = NatOf(x) /\ i = NatOf(210000)) => ret = v
        IN  /\ \/ \E k \in 0..63 :
                     /\ Le(MulSmall(i, k), h)
                     /\ Lt(h, MulSmall(i, k + 1))
                     /\ Le(Mul(ret, Pow2(k)), Dec9(5, 0))
                     /\ Lt(Dec9(5, 0), Mul(Add(ret, <<1>>), Pow2(k)))
               \/ Le(MulSmall(i, 64), h) /\ ret = <<>>
            /\ At(0, Dec9(5, 0))
            /\ At(209999, Dec9(5, 0))
            /\ At(210000, Dec9(2, 500000000))
            /\ At(13440000, <<>>)

C3_Witness ==
    /\ op = "get_subsidy"
    /\ args.height = NatOf(210000)
    /\ args.subsidy_halving_interval = NatOf(210000)
    /\ ret = Dec9(2, 500000000)

\* C4: once the Merkle root matched, validate_block_no_acc returns BadBip34
\* if and only if height >= bip34_height and the integer encoded by the
\* first push of the coinbase script_sig is absent, undecodable or not
\* height; below bip34_height it never returns BadBip34.
C4_BadBip34Exactly ==
    (IsValidate /\ PassesMerkle) =>
        (ret.res = "BadBip34" <=>
            /\ Le(args.params.bip34_height, args.height)
            /\ ~EncodesHeight(args.block, args.height))

\* C5: validate_block_no_acc returns Ok only if every check passes, and
\* otherwise the error of the first failing check in the order
\* BadMerkleRoot, BadBip34, BadWitnessCommitment, BlockTooBig, then
\* EmptyBlock / FirstTxIsNotCoinbase / the coinbase's error, then the first
\* invalid transaction's error, and BadCoinbaseOutValue last.
C5_FirstFailingCheck ==
    IsValidate => ret.res = ExactBlockVerdict

\* whether the call gets to the checks on the transaction list
ReachesTxs ==
    \/ IsVerify
    \/ IsValidate /\ PassesMerkle /\ PassesBip34 /\ PassesWitness
                  /\ args.block.weight <= 4000000

\* C6 as stated: block validation rejects an empty transaction list with
\* EmptyBlock and a first transaction that is not a coinbase (the earlier
\* checks passed) with FirstTxIsNotCoinbase, in both cases before any
\* transaction is verified and before the reward is checked.
C6_EmptyBlockAndFirstTx ==
    (IsVerify \/ IsValidate) =>
        /\ CallTxs = <<>> => ret.res = "EmptyBlock"
        /\ (ReachesTxs /\ CallTxs # <<>> /\ ~is_coinbase(CallTxs[1])) =>
               ret.res = "FirstTxIsNotCoinbase"
        /\ ret.res \in {"EmptyBlock", "FirstTxIsNotCoinbase"} =>
               (~LogHas("verify_transaction") /\ ~LogHas("reward"))

\* C6 amended: verify_block_transactions rejects an empty transaction list
\* with EmptyBlock, while validate_block_no_acc rejects it before, with
\* BadMerkleRoot; both reject a first transaction that is not a coinbase
\* (the earlier checks passed) with FirstTxIsNotCoinbase; with either error
\* no transaction was verified and the reward was not checked.
C6_EmptyAndFirstTx ==
    (IsVerify \/ IsValidate) =>
        /\ CallTxs = <<>> => ret.res = IF IsVerify THEN "EmptyBlock" ELSE "BadMerkleRoot"
        /\ (ReachesTxs /\ CallTxs # <<>> /\ ~is_coinbase(CallTxs[1])) =>
               ret.res = "FirstTxIsNotCoinbase"
        /\ ret.res \in {"EmptyBlock", "FirstTxIsNotCoinbase"} =>
               /\ ~LogHas("verify_transaction")
               /\ ~LogHas("reward")
               /\ (CallTxs = <<>> \/ ~is_coinbase(CallTxs[1]))

C6_Witness ==
    /\ IsValidate
    /\ ret.res = "FirstTxIsNotCoinbase"
    /\ Len(CallTxs) = 3
    /\ Lt(CallSubsidy, CoinbaseTotal)

\* C7: once the earlier checks passed, validate_block_no_acc returns
\* BlockTooBig if and only if the block's weight is greater than 4_000_000;
\* a block of weight 4_000_000 is not rejected for its size.
C7_BlockTooBigExactly ==
    (IsValidate /\ PassesMerkle /\ ret.res # "BadBip34" /\ PassesWitness) =>
        (ret.res = "BlockTooBig" <=> args.block.weight > 4000000)

C7_Witness ==
    /\ IsValidate
    /\ args.block.weight = 4000000
    /\ ret.res = Ok

IsUpdate == op = "update_acc"

\* whether the call asks to delete a leaf that the block connected last
\* deleted
DeletesAgain ==
    \E i \in 1..Len(args.del_hashes), j \in 1..Len(last.del_hashes) :
        args.del_hashes[i] = last.del_hashes[j]

\* C8: update_acc fails with UnspendableUTXO whenever del_hashes holds
\* either BIP30 leaf hash, at any position and whatever the proof; the
\* caller's stump is as before and no stump is returned.
C8_UnspendableRejected ==
    (IsUpdate /\ \E i \in 1..Len(args.del_hashes) :
                     args.del_hashes[i] \in {UNSPENDABLE_BIP30_UTXO_91722,
                                             UNSPENDABLE_BIP30_UTXO_91812}) =>
        /\ ret.res = "UnspendableUTXO"
        /\ DOMAIN ret = {"res"}
        /\ acc = args.acc

C8_Witness ==
    /\ IsUpdate
    /\ Len(args.del_hashes) = 2
    /\ args.del_hashes[1] # UNSPENDABLE_BIP30_UTXO_91722
    /\ args.del_hashes[2] = UNSPENDABLE_BIP30_UTXO_91812
    /\ modify(args.acc, <<>>, args.del_hashes, args.proof).ok
    /\ ret.res = "UnspendableUTXO"

\* C9: update_acc leaves the stump it is given as it was, whether it
\* succeeds or fails, and with no additions, no deletions and an empty
\* proof it returns a stump equal to the one given.
C9_UpdateIsPure ==
    IsUpdate =>
        /\ acc = args.acc
        /\ ( /\ get_block_adds(args.block, args.height, args.block.hash) = <<>>
             /\ args.del_hashes = <<>>
             /\ args.proof = EmptyProof ) =>
                 (ret.res = Ok /\ ret.acc = args.acc)

C9_Witness ==
    /\ IsUpdate
    /\ ret.res = Ok
    /\ args.del_hashes # <<>>
    /\ ret.acc # args.acc
    /\ acc = args.acc

\* C10 as stated: after a connected update that deleted a leaf, the
\* following update that deletes the same leaf again fails with
\* BadAccumulatorProof.
C10_SecondDeletionBadProof ==
    (IsUpdate /\ DeletesAgain) => ret.res = "BadAccumulatorProof"

\* C10 amended: after a connected update that deleted a leaf, the following
\* update that deletes the same leaf again fails: with UnspendableUTXO when
\* its del_hashes also hold a BIP30 leaf hash, and with BadAccumulatorProof
\* otherwise.
C10_SecondDeletionFails ==
    (IsUpdate /\ DeletesAgain) =>
        ret.res = IF \E i \in 1..Len(args.del_hashes) :
                         args.del_hashes[i] \in {UNSPENDABLE_BIP30_UTXO_91722,
                                                 UNSPENDABLE_BIP30_UTXO_91812}
                  THEN "UnspendableUTXO"
                  ELSE "BadAccumulatorProof"

C10_Witness ==
    /\ IsUpdate
    /\ args.del_hashes = last.del_hashes
    /\ args.proof = last.proof
    /\ args.del_hashes # <<>>
    /\ args.acc.leaves > Len(args.del_hashes)
    /\ ret.res = "BadAccumulatorProof"

\* C11: the stump a successful update_acc returns has at least as many
\* leaves as the stump given less the number of hashes deleted, and from
\* one connected block to the next the leaf count of the chain's stump
\* never decreases.
C11_LeafCountMonotone ==
    [][ /\ (op' = "update_acc" /\ ret'.res = Ok) =>
               ret'.acc.leaves >= args'.acc.leaves - Len(args'.del_hashes)
        /\ acc'.leaves >= acc.leaves ]_vars

C11_Witness ==
    /\ IsUpdate
    /\ ret.res = Ok
    /\ validation_height >= 1
    /\ args.del_hashes # <<>>
    /\ args.acc.leaves >= 2
    /\ get_block_adds(args.block, args.height, args.block.hash) = <<>>
    /\ ret.acc.leaves = args.acc.leaves

IsBip94 == op = "check_bip94_time"
IsCalcWork == op = "calc_next_work_required"

\* C12: for any two u32 header times, check_bip94_time accepts the header
\* if and only if header.time >= parent.time - 600 over the integers, and
\* rejects it with BIP94TimeWarp otherwise.
C12_Bip94TimeOverIntegers ==
    IsBip94 =>
        ret.res = IF Le(args.prev_block.time, Add(args.block.time, NatOf(600)))
                  THEN Ok
                  ELSE "BIP94TimeWarp"

\* the timespan of the period over the integers, clamped to a quarter of
\* and four times the target timespan
ClampedTimespan ==
    LET lo == Shr(args.params.pow_target_timespan, 2)
        hi == Mul(args.params.pow_target_timespan, NatOf(4))
    IN  IF Lt(args.last_block.time, args.first_block.time) THEN lo
        ELSE Clamp(Sub(args.last_block.time, args.first_block.time), lo, hi)

\* C13: on a network that retargets, calc_next_work_required returns the
\* target computed from last.time - first.time clamped to [timespan / 4,
\* timespan * 4], also when last.time < first.time, and the target is at
\* most the network's maximum target.
C13_TimespanAlwaysClamped ==
    (IsCalcWork /\ ~args.params.no_pow_retargeting) =>
        /\ ret.res = Ok
        /\ ret.target =
               from_compact(from_next_work_required(
                   IF args.params.enforce_bip94 THEN args.first_block.bits
                   ELSE args.last_block.bits,
                   ClampedTimespan, args.params))
        /\ Le(ret.target, args.params.max_attainable_target)

\* C14: the target calc_next_work_required returns is the one computed from
\* the bits of the first block of the period when the network enforces
\* BIP94 and from those of the last block otherwise; the bits of the other
\* block have no part in it.
C14_BaseBitsByBip94 ==
    (IsCalcWork /\ ret.res = Ok) =>
        ret.target =
            from_compact(from_next_work_required(
                IF args.params.enforce_bip94 THEN args.first_block.bits
                ELSE args.last_block.bits,
                U32Sub(args.last_block.time, args.first_block.time).val,
                args.params))

C14_Witness ==
    /\ IsCalcWork
    /\ ret.res = Ok
    /\ args.params.enforce_bip94
    /\ args.first_block.bits # args.last_block.bits
    /\ ret.target #
           from_compact(from_next_work_required(
               args.last_block.bits,
               U32Sub(args.last_block.time, args.first_block.time).val,
               args.params))

\* C15: no validation operation aborts: each call returns Ok or an error
\* value and never panics.
C15_NoOperationPanics ==
    (op \in {"check_bip94_time", "calc_next_work_required",
             "verify_block_transactions", "validate_block_no_acc"}) =>
        ret.res # Panic

-----------------------------------------------------------------------------
(* C16 *)

-----------------------------------------------------------------------------
(* C17 *)

-----------------------------------------------------------------------------
(* C19 *)

\* the outpoints a transaction spends, and whether it names one twice
Spends(tx) == {tx.input[i].previous_output : i \in 1..Len(tx.input)}
NamesTwice(tx) ==
    \E i, j \in 1..Len(tx.input) :
        i < j /\ tx.input[i].previous_output = tx.input[j].previous_output

\* the outpoints spent by the non-coinbase transactions before transaction n
SpentBefore(txs, n) == UNION {Spends(txs[m]) : m \in 2..(n - 1)}

\* transaction n spends an outpoint a second time in the block
Respends(txs, n) ==
    NamesTwice(txs[n]) \/ Spends(txs[n]) \cap SpentBefore(txs, n) # {}

HasRespend(txs) == \E n \in 2..Len(txs) : Respends(txs, n)

FirstRespend(txs) ==
    CHOOSE n \in 2..Len(txs) :
        Respends(txs, n) /\ \A m \in 2..(n - 1) : ~Respends(txs, m)

\* the first input of transaction n that an earlier transaction spent
FirstRespentInput(txs, n) ==
    CHOOSE i \in 1..Len(txs[n].input) :
        /\ txs[n].input[i].previous_output \in SpentBefore(txs, n)
        /\ \A j \in 1..(i - 1) : txs[n].input[j].previous_output \notin SpentBefore(txs, n)

\* the inputs of transaction n before input i pass their own checks
GoodBefore(txs, n, i) ==
    \A j \in 1..(i - 1) :
        LET o == txs[n].input[j].previous_output
        IN  /\ o \in DOMAIN CallUtxos
            /\ ~(/\ CallUtxos[o].is_coinbase
                 /\ Lt(args.height,
                       Add(CallUtxos[o].creation_height, NatOf(COINBASE_MATURITY))))
            /\ args.verify_script => txs[n].script_ok

\* the loop verified transaction n
Reached(n) == \E i \in 1..Len(ret.log) : ret.log[i] = Step("verify_transaction", n)

-----------------------------------------------------------------------------
(* C20 *)

\* C20: in every state of the store, every entry of header_cache has a
\* committed row of the headers table under the serialized hash whose
\* bytes are those of the cached header, and every entry of index_cache
\* has a committed row of the index table under its height whose bytes are
\* those of the cached hash, whatever the calls made returned.
C20_CachedEntriesAreCommitted ==
    /\ \A i \in 1..Len(header_cache) :
          /\ serialize_BlockHash(header_cache[i].key) \in DOMAIN db.headers
          /\ db.headers[serialize_BlockHash(header_cache[i].key)]
                 = serialize_DiskBlockHeader(header_cache[i].value)
    /\ \A i \in 1..Len(index_cache) :
          /\ index_cache[i].key \in DOMAIN db.index
          /\ db.index[index_cache[i].key] = serialize_BlockHash(index_cache[i].value)

-----------------------------------------------------------------------------
(* C30 *)

\* C30: get_bip34_height returns Some(h) only when the first push of the
\* coinbase script_sig encodes exactly the non-negative integer h, a push
\* of a negative script integer never yielding a height; so no block passes
\* the BIP34 check of validate_block_no_acc at a height unless its coinbase
\* encodes that height.
C30_HeightOnlyIfEncoded ==
    /\ (op = "get_bip34_height" /\ ret.some) => EncodesHeight(args.block, ret.val)
    /\ (/\ IsValidate
        /\ PassesMerkle
        /\ Le(args.params.bip34_height, args.height)
        /\ ret.res # "BadBip34") => EncodesHeight(args.block, args.height)

-----------------------------------------------------------------------------
(* C24 *)

\* the ports the documentation of get_default_electrum_port gives
DocumentedPorts ==
    [Bitcoin  |-> [plain |-> 50001, tls |-> 50002],
     Signet   |-> [plain |-> 60001, tls |-> 60002],
     Testnet4 |-> [plain |-> 40001, tls |-> 40003],
     Testnet  |-> [plain |-> 30001, tls |-> 30002],
     Regtest  |-> [plain |-> 20001, tls |-> 20002]]

\* C24: get_default_electrum_port returns, for each network, the documented
\* (plain, TLS) port pair: Bitcoin 50001/50002, Signet 60001/60002,
\* Testnet4 40001/40003, Testnet3 30001/30002, Regtest 20001/20002.
C24_DocumentedPortPairs ==
    op = "get_default_electrum_port" =>
        ret = IF args.enable_electrum_tls
              THEN DocumentedPorts[args.network].tls
              ELSE DocumentedPorts[args.network].plain

-----------------------------------------------------------------------------
(* C26 *)

\* C26: in the UtreexoNodeConfig built by Florestad::start, whenever
\* pow_fraud_proofs is true (signet) assume_utreexo is None, for every
\* combination of the config fields assume_utreexo and assumeutreexo_value:
\* the node never runs with both PoW fraud proofs and assume-utreexo.
C26_FraudProofsExcludeAssumeUtreexo ==
    (op = "start" /\ ret.pow_fraud_proofs) => ret.assume_utreexo = None

-----------------------------------------------------------------------------
(* C25 *)

\* whether path p ends with a separator
EndsWithSeparator(p) == p # <<>> /\ p[Len(p)] \in Separators

\* whether t is s without some trailing separators
IsTrimOf(t, s) ==
    /\ Len(t) <= Len(s)
    /\ t = SubSeq(s, 1, Len(t))
    /\ \A i \in (Len(t) + 1)..Len(s) : s[i] \in Separators

NetworkDirs ==
    [Testnet |-> "testnet3", Testnet4 |-> "testnet4", Signet |-> "signet",
     Regtest |-> "regtest"]

\* whether path p is base, as it is for Network::Bitcoin and with exactly
\* the sub-directory of the network appended otherwise
IsBaseForNetwork(p, base, network) ==
    IF network = "Bitcoin" THEN p = base
    ELSE \/ p = base \o <<"/", NetworkDirs[network]>>
         \/ base = <<>> /\ p = <<NetworkDirs[network]>>

\* whether the result is the configured directory without its trailing
\* separators, for the network
ConfiguredDirReturned ==
    \E t \in {SubSeq(args.config.data_dir.val, 1, n) :
                 n \in 0..Len(args.config.data_dir.val)} :
        /\ IsTrimOf(t, args.config.data_dir.val)
        /\ ~EndsWithSeparator(t)
        /\ IsBaseForNetwork(ret, t, args.config.network)

\* C25 as stated: data_dir_path returns the configured data_dir with every
\* trailing '/' and '\' removed, or $HOME/.floresta when none is configured,
\* unchanged for Network::Bitcoin and with exactly one network sub-directory
\* appended otherwise: testnet3, testnet4, signet, regtest.
C25_DataDirOrHome ==
    op = "data_dir_path" =>
        IF args.config.data_dir.some THEN ConfiguredDirReturned
        ELSE /\ args.home.some
             /\ \/ IsBaseForNetwork(ret, args.home.val \o <<"/", ".floresta">>,
                                    args.config.network)
                \/ /\ EndsWithSeparator(args.home.val)
                   /\ IsBaseForNetwork(ret, Append(args.home.val, ".floresta"),
                                       args.config.network)

\* C25: data_dir_path returns the configured data_dir with every trailing
\* '/' and '\' removed, or $HOME/.floresta when none is configured and
\* ./.floresta when no home directory is found either, unchanged for
\* Network::Bitcoin and with exactly one network sub-directory appended
\* otherwise: testnet3, testnet4, signet, regtest.
C25_DataDirOrHomeOrDot ==
    op = "data_dir_path" =>
        IF args.config.data_dir.some THEN ConfiguredDirReturned
        ELSE IF ~args.home.some
        THEN IsBaseForNetwork(ret, <<".", "/", ".floresta">>, args.config.network)
        ELSE \/ IsBaseForNetwork(ret, args.home.val \o <<"/", ".floresta">>,
                                 args.config.network)
             \/ /\ EndsWithSeparator(args.home.val)
                /\ IsBaseForNetwork(ret, Append(args.home.val, ".floresta"),
                                    args.config.network)

\* several trailing separators of both kinds are removed and the
\* sub-directory of signet is appended
C25_Witness ==
    /\ op = "data_dir_path"
    /\ args.config.data_dir = Some(<<"/", "path", "/", "\\", "/">>)
    /\ args.config.network = "Signet"
    /\ ret = <<"/", "path", "/", "signet">>

-----------------------------------------------------------------------------
(* C21, C22 *)

\* the store after a crash and a restart
Restarted == new(TheStore).store

\* C21: every write (save_header, update_block_index, save_height,
\* save_roots_for_block) that returned Ok is committed to the database and
\* is read back after a crash and restart, flush having returned Ok or not:
\* no write that returned Ok is ever lost.
C21_AckedWritesAreDurable ==
    /\ \A hash \in DOMAIN acked.headers :
          LET read == get_header(Restarted, hash, FALSE)
          IN  read.res = Ok /\ read.val = Some(acked.headers[hash])
    /\ \A height \in DOMAIN acked.index :
          LET read == get_block_hash(Restarted, height, FALSE)
          IN  read.res = Ok /\ read.val = Some(acked.index[height])
    /\ acked.height.some =>
          LET read == load_height(Restarted, FALSE)
          IN  read.res = Ok /\ read.val = acked.height
    /\ \A height \in DOMAIN acked.roots :
          LET read == load_roots_for_block(Restarted, height, FALSE)
          IN  read.res = Ok /\ read.val = Some(acked.roots[height])

\* the store was restarted after flush returned Ok, with a write of every
\* kind acknowledged before
C21_Witness ==
    /\ op = "new"
    /\ acked.flushed
    /\ acked.headers # <<>>
    /\ acked.index # <<>>
    /\ acked.height.some
    /\ DOMAIN acked.roots = RootHeights
    /\ header_cache = <<>>
    /\ index_cache = <<>>

\* C22: load_roots_for_block(h) returns the bytes most recently saved with
\* save_roots_for_block(_, h) and None if nothing was saved for h, whatever
\* was saved at another height and whatever header, index and tip-marker
\* writes were made.
C22_RootsKeyedByHeight ==
    (op = "load_roots_for_block" /\ ret.res = Ok) =>
        ret.val = IF args.height \in DOMAIN acked.roots
                  THEN Some(acked.roots[args.height])
                  ELSE None

\* the snapshot of height 1 is loaded while another snapshot is saved for
\* height 10 and a header, an index entry and the tip marker are written
C22_Witness ==
    /\ op = "load_roots_for_block"
    /\ args.height = 1
    /\ ret = [res |-> Ok, val |-> Some(<<1>>)]
    /\ 10 \in DOMAIN acked.roots
    /\ acked.roots[10] = <<2, 0>>
    /\ acked.headers # <<>>
    /\ acked.index # <<>>
    /\ acked.height.some

-----------------------------------------------------------------------------
(* C27 *)

\* what a store without caches returns for a key: the latest value written
Written(table, key) == IF key \in DOMAIN table THEN Some(table[key]) ELSE None

\* C27: for every sequence of successful save_header, update_block_index,
\* get_header, get_block_hash and get_header_by_height calls, each read
\* returns exactly what a store without caches would return (the latest
\* value written for that key, None if the key was never written),
\* whatever the cache hits, misses and evictions; and
\* get_header_by_height(h) is get_header applied to get_block_hash(h).
C27_CachesAreInvisible ==
    /\ op = "get_header" =>
          ret = [res |-> Ok, val |-> Written(acked.headers, args.block_hash)]
    /\ op = "get_block_hash" =>
          ret = [res |-> Ok, val |-> Written(acked.index, args.height)]
    /\ op = "get_header_by_height" =>
          ret = [res |-> Ok,
                 val |-> IF Written(acked.index, args.height) = None THEN None
                         ELSE Written(acked.headers, acked.index[args.height])]

\* more headers and index entries were written than a cache holds, a
\* header was overwritten, and the header read is the one written last
C27_Witness ==
    /\ DOMAIN acked.headers = OkHashes
    /\ DOMAIN acked.index = OkHeights
    /\ Len(header_cache) = MaxCached
    /\ op = "get_header_by_height"
    /\ args.height = 1
    /\ ret = [res |-> Ok, val |-> Some([tag |-> "FullyValid", header |-> 1, height |-> 1])]
    /\ \E i \in 1..Len(header_cache) :
          header_cache[i].key = block_hash([header |-> 3])


(* C23: when Florestad::stop has returned on a started node, the chain     *)
(* provider has finished and has sent its shutdown notification.            *)
C23_StopReturnsAfterNodeStopped ==
    (pc["stop"] = "returned" /\ provider # "none")
        => (provider = "finished" /\ chan.sender = "sent")

(* C28: the shutdown flag is false at construction, is true once           *)
(* Florestad::stop or the RPC stop (answering "Floresta stopping") has     *)
(* completed, is raised by nothing else, never goes back to false, and a   *)
(* should_stop that reads it once it is true returns true.                 *)
StopCompleted ==
    /\ \A p \in Stoppers : pc[p] = "returned" => stop_signal
    /\ pc["rpc"] = "returned" => local["rpc"] = Some("Floresta stopping")

FlagRaisedByStop ==
    (~stop_signal /\ stop_signal')
        => \E p \in Stoppers : pc[p] = "locked" /\ pc'[p] = "returned"

ShouldStopSeesFlag ==
    (stop_signal /\ pc["should_stop"] = "locked" /\ pc'["should_stop"] = "returned")
        => local'["should_stop"] = Some(TRUE)

C28_ShutdownFlagMonotone ==
    /\ ~stop_signal
    /\ []StopCompleted
    /\ [][FlagRaisedByStop]_vars
    /\ [][stop_signal => stop_signal']_vars
    /\ [][ShouldStopSeesFlag]_vars

C28_Witness ==
    /\ pc["stop"] = "idle" /\ local["stop"] = None /\ stop_signal
    /\ pc["rpc"] = "returned"
    /\ pc["should_stop"] = "returned" /\ local["should_stop"] = Some(TRUE)

(* C29: a wait_shutdown that took the receiver returns only after the      *)
(* chain provider has sent on, or dropped, the channel; the receiver is    *)
(* taken at most once, so at most one caller waits; a call that finds no   *)
(* receiver, as before start or after an earlier wait_shutdown, returns at *)
(* once.                                                                   *)
WaitedForProvider ==
    \A w \in Waiters :
        (pc[w] = "returned" /\ local[w].some) => chan.sender \in {"sent", "dropped"}

OneWaiter ==
    /\ chan.taken <= 1
    /\ Cardinality({w \in Waiters : pc[w] = "awaiting"}) <= 1
    /\ (provider = "none" \/ chan.taken >= 1) => ~stop_notify.some

ReturnsAtOnce ==
    \A w \in Waiters :
        (pc[w] = "idle" /\ pc'[w] # "idle" /\ ~stop_notify.some)
            => pc'[w] = "returned"

C29_WaitShutdownWaitsOnce ==
    /\ [](WaitedForProvider /\ OneWaiter)
    /\ [][ReturnsAtOnce]_vars

C29_Witness ==
    /\ pc["wait1"] = "returned" /\ local["wait1"].some /\ chan.sender = "sent"
    /\ pc["wait2"] = "returned" /\ ~local["wait2"].some

=============================================================================
